---- MODULE Spec2Model ----
(***************************************************************************)
(* Automated Frequency Coordination (AFC) decision engine for 6 GHz:       *)
(* the grant-table builders (grant_table.py), the single-path allocator    *)
(* (allocator.py) and the spectrum-inquiry handler (protocol.py).          *)
(*                                                                         *)
(* Units.  Powers, gains and losses are integers in centi-dB (1/100 dB),   *)
(* frequencies and bandwidths are integers in kHz, distances are metres.   *)
(* A Python None is the empty tuple, a present value v is <<v>>.           *)
(***************************************************************************)
EXTENDS Integers, Sequences, FiniteSets, TLC

VARIABLES
    spec,        \* SpecParameters: the immutable parameter set
    incumbents,  \* the incumbent records (list of dicts)
    call,        \* the arguments of the builder call made, {} before any call
    rows,        \* the GrantRow list the call returned
    outcome,     \* "none" | "returned" | "raised"
    request,     \* the AvailableSpectrumInquiryRequest dict
    policy,      \* certified_ids / disallowed_ids / disallowed_pairs keyword arguments
    response     \* the handler's response dict, or the exception it raised

vars == <<spec, incumbents, call, rows, outcome, request, policy, response>>

-----------------------------------------------------------------------------
(* Generic helpers *)

None == <<>>
Some(v) == <<v>>
IsNone(x) == x = <<>>
Val(x) == x[1]

Min2(a, b) == IF a <= b THEN a ELSE b
Max2(a, b) == IF a >= b THEN a ELSE b
Abs(a) == IF a < 0 THEN -a ELSE a

RECURSIVE SeqsUpTo(_, _)
SeqsUpTo(S, n) ==
    IF n = 0 THEN {<<>>}
    ELSE LET shorter == SeqsUpTo(S, n - 1)
         IN shorter \cup {Append(s, x) : s \in {t \in shorter : Len(t) = n - 1}, x \in S}

-----------------------------------------------------------------------------
(* Logarithm tables (math.log10 on the values the model uses) *)

\* 10000 * log10(d) for a distance d in metres
Log10e4(d) ==
    CASE d = 1 -> 0
      [] d = 10 -> 10000
      [] d = 100 -> 20000
      [] d = 300 -> 24771
      [] d = 1000 -> 30000
      [] d = 3000 -> 34771
      [] d = 30000 -> 44771

\* 10 * log10(bw) in centi-dB for a bandwidth in kHz, taken in MHz as the code does
TenLog10MHz(bw_khz) ==
    CASE bw_khz = 200 -> -699
      [] bw_khz = 1000 -> 0
      [] bw_khz = 20000 -> 1301
      [] bw_khz = 25000 -> 1398
      [] bw_khz = 40000 -> 1602
      [] bw_khz = 60000 -> 1778
      [] bw_khz = 80000 -> 1903
      [] bw_khz = 100000 -> 2000
      [] bw_khz = 160000 -> 2204

\* 20 * log10(f in MHz) in centi-dB, linearised around 5955 MHz (exact to 0.02 dB
\* over 5925..6425 MHz)
TwentyLog10FreqMHz(f_khz) == 7550 + ((f_khz - 5955000) * 146) \div 1000000

\* 10 * log10(1 + 10^(-d/10)) in centi-dB for a difference of d whole dB
ParallelLossTable ==
    <<301, 254, 212, 176, 146, 119, 97, 79, 64, 51, 41, 33, 27, 21, 17, 14,
      11, 9, 7, 5, 4, 3, 3, 2, 2, 1, 1, 1, 1, 1>>

-----------------------------------------------------------------------------
(* link_budget.py *)

\* N = -174 + 10 log10(B_Hz) + NF ; 10 log10(B_Hz) = 60 dB + 10 log10(B_MHz)
noise_power_dbm(b_rx_khz, nf_db) == -17400 + 6000 + TenLog10MHz(b_rx_khz) + nf_db

i_threshold_dbm(n_dbm, inr_limit_db) == n_dbm + inr_limit_db

-----------------------------------------------------------------------------
(* fspl.py, propagation.py, itm.py *)

\* 20 log10(4 pi d f / c) with d in m and f in MHz: the constant is -27.55 dB
fspl_db(distance_m, f_khz) ==
    Log10e4(distance_m) \div 5 + TwentyLog10FreqMHz(f_khz) - 2755

fspl_raises(distance_m, f_khz) == distance_m <= 0 \/ f_khz <= 0

\* PL(d0) + 10 n log10(d / d0) with n = 2.1, d0 = 1 m
winner2_pathloss_db(distance_m, f_khz) ==
    fspl_db(1, f_khz) + (21 * Log10e4(Max2(distance_m, 1))) \div 100

\* two-slope: n1 = 2.0 up to the 100 m breakpoint, n2 = 3.5 beyond
two_slope_pathloss_db(distance_m, f_khz) ==
    IF distance_m <= 100
    THEN fspl_db(1, f_khz) + (20 * Log10e4(Max2(distance_m, 1))) \div 100
    ELSE fspl_db(1, f_khz) + (20 * Log10e4(100)) \div 100
         + (35 * (Log10e4(distance_m) - Log10e4(100))) \div 100

\* FSPL plus 0.1 dB per dB-metre
itm_pathloss_db(distance_m, f_khz) ==
    fspl_db(distance_m, f_khz) + Log10e4(Max2(distance_m, 1)) \div 100

EnvironmentNames == {"urban", "suburban", "rural", "indoor"}

\* the dict lookup of environment_extra_loss_db: KeyError on any other key
environment_extra_loss_db(env) ==
    CASE env = "urban" -> 800
      [] env = "suburban" -> 400
      [] env = "rural" -> 100
      [] env = "indoor" -> 1200

environment_extra_loss_raises(env) == env \notin EnvironmentNames

building_penetration_loss_db(indoor, penetration_db) ==
    IF ~IsNone(penetration_db) THEN Max2(0, Val(penetration_db))
    ELSE IF indoor THEN 1200 ELSE 0

\* selector is None, "fspl", "winner2" or "itm"; environment is None or Some(name)
select_pathloss_db(distance_m, f_khz, selector, environment, indoor, penetration_db) ==
    LET pl == IF selector = Some("fspl") THEN fspl_db(distance_m, f_khz)
              ELSE IF selector = Some("winner2") \/ (IsNone(selector) /\ distance_m < 5000)
                   THEN winner2_pathloss_db(distance_m, f_khz)
              ELSE itm_pathloss_db(distance_m, f_khz)
    IN pl + (IF ~IsNone(environment) THEN environment_extra_loss_db(Val(environment)) ELSE 0)
          + building_penetration_loss_db(indoor, penetration_db)

select_pathloss_raises(distance_m, f_khz, selector, environment) ==
    \/ fspl_raises(distance_m, f_khz)
    \/ (~IsNone(environment) /\ environment_extra_loss_raises(Val(environment)))

\* itm.py: FSPL plus max(0, distance, climate and height terms); tx height 10 m
climate_term_db(climate) ==
    IF IsNone(climate) \/ climate = Some("") THEN 0
    ELSE IF Val(climate) = "maritime" THEN 200
    ELSE IF Val(climate) = "tropical" THEN 100
    ELSE 300

longley_rice_pathloss_db(distance_m, f_khz, rx_height_m, climate) ==
    LET h_rx == IF IsNone(rx_height_m) \/ rx_height_m = Some(0) THEN 10
                ELSE Max2(1, Val(rx_height_m))
        \* -2 log10(h_tx * h_rx) with h_tx = 10
        height_term == -(2 * (10000 + Log10e4(h_rx))) \div 100
        dist_term == (6 * (Log10e4(Max2(distance_m, 1)) - 30000)) \div 100
    IN fspl_db(distance_m, f_khz) + Max2(0, dist_term + climate_term_db(climate) + height_term)

-----------------------------------------------------------------------------
(* acir_defaults.py, acir_masks.py, acir.py *)

\* masks are dicts offset MHz -> attenuation (centi-dB), modelled as functions
default_tx_mask_db_by_offset_mhz ==
    (10 :> 2000) @@ (20 :> 3000) @@ (30 :> 3300) @@ (40 :> 3500) @@ (80 :> 4500) @@ (120 :> 5000)

default_rx_acs_db_by_offset_mhz ==
    (10 :> 1800) @@ (20 :> 3000) @@ (30 :> 3200) @@ (40 :> 3500) @@ (80 :> 4300) @@ (120 :> 4800)

\* dict(defaults).update(given): the given entries win
DictUpdate(base, given) ==
    [k \in DOMAIN base \cup DOMAIN given |-> IF k \in DOMAIN given THEN given[k] ELSE base[k]]

ensure_defaults(a_tx, a_rx) ==
    <<DictUpdate(default_tx_mask_db_by_offset_mhz, a_tx),
      DictUpdate(default_rx_acs_db_by_offset_mhz, a_rx)>>

\* tuple order of Python's sorted() on (x, y) pairs
PointLeq(p, q) == p[1] < q[1] \/ (p[1] = q[1] /\ p[2] <= q[2])

RECURSIVE InsertPoint(_, _)
InsertPoint(p, s) ==
    IF s = <<>> THEN <<p>>
    ELSE IF PointLeq(p, Head(s)) THEN <<p>> \o s
    ELSE <<Head(s)>> \o InsertPoint(p, Tail(s))

RECURSIVE SortPoints(_)
SortPoints(s) == IF s = <<>> THEN <<>> ELSE InsertPoint(Head(s), SortPoints(Tail(s)))

\* sorted((float(k), float(v)) for k, v in d.items()), offsets converted to kHz
RECURSIVE DictPointsOf(_, _)
DictPointsOf(d, keys) ==
    IF keys = {} THEN <<>>
    ELSE LET k == CHOOSE m \in keys : \A o \in keys : m <= o
         IN <<<<k * 1000, d[k]>>>> \o DictPointsOf(d, keys \ {k})

DictPoints(d) == DictPointsOf(d, DOMAIN d)

\* _sorted_points: sort, then collapse equal offsets keeping the later of the sorted list
RECURSIVE CollapsePoints(_, _)
CollapsePoints(cleaned, pts) ==
    IF pts = <<>> THEN cleaned
    ELSE IF cleaned # <<>> /\ cleaned[Len(cleaned)][1] = Head(pts)[1]
         THEN CollapsePoints([cleaned EXCEPT ![Len(cleaned)] = Head(pts)], Tail(pts))
    ELSE CollapsePoints(Append(cleaned, Head(pts)), Tail(pts))

sorted_points(points) == CollapsePoints(<<>>, SortPoints(points))

RECURSIVE InterpolateFrom(_, _, _)
InterpolateFrom(x, pts, i) ==
    IF i >= Len(pts) THEN pts[Len(pts)][2]
    ELSE LET x0 == pts[i][1]
             y0 == pts[i][2]
             x1 == pts[i + 1][1]
             y1 == pts[i + 1][2]
         IN IF x0 <= x /\ x <= x1
            THEN (IF x1 = x0 THEN y0 ELSE y0 + ((x - x0) * (y1 - y0)) \div (x1 - x0))
            ELSE InterpolateFrom(x, pts, i + 1)

\* if not pts: raise ValueError
interpolate_mask_raises(mask_points) == sorted_points(mask_points) = <<>>

\* mask_points must not be empty (ValueError otherwise)
interpolate_mask_db(offset_khz, mask_points) ==
    LET pts == sorted_points(mask_points)
    IN IF offset_khz <= pts[1][1] THEN pts[1][2] ELSE InterpolateFrom(offset_khz, pts, 1)

\* ACIR_lin = 1 / (10^(-A_tx/10) + 10^(-A_rx/10)):
\* in dB the smaller attenuation less 10 log10(1 + 10^(-|difference|/10)), the latter
\* read from the table and interpolated between whole dB
acir_db(a_tx_db, a_rx_db) ==
    LET diff == Abs(a_tx_db - a_rx_db)
        At(d) == IF d + 1 <= Len(ParallelLossTable) THEN ParallelLossTable[d + 1] ELSE 0
        lower == At(diff \div 100)
        upper == At(diff \div 100 + 1)
    IN Min2(a_tx_db, a_rx_db) - (lower - ((lower - upper) * (diff % 100)) \div 100)

acir_db_from_masks(offset_khz, tx_mask_points, rx_acs_points) ==
    acir_db(interpolate_mask_db(offset_khz, tx_mask_points),
            interpolate_mask_db(offset_khz, rx_acs_points))

-----------------------------------------------------------------------------
(* allocator.py, device_constraints.py *)

\* acir_db_value and eirp_regulatory_max_dbm are None or Some(value)
allowed_eirp_dbm_for_path(n_dbm, inr_limit_db, path_loss_db, g_rx_dbi, l_rx_losses_db, l_polarization_db, acir_db_value, eirp_regulatory_max_dbm) ==
    LET i_thr_dbm == i_threshold_dbm(n_dbm, inr_limit_db)
        effective_i_thresh == IF ~IsNone(acir_db_value) THEN i_thr_dbm + Val(acir_db_value)
                              ELSE i_thr_dbm
        eirp_allowed == effective_i_thresh + path_loss_db - g_rx_dbi + l_rx_losses_db
                        + l_polarization_db
    IN IF ~IsNone(eirp_regulatory_max_dbm)
       THEN Min2(eirp_allowed, Val(eirp_regulatory_max_dbm))
       ELSE eirp_allowed

\* the builders always pass channel_offset_mhz = None, so no ACIR reaches the path formula
allowed_eirp_dbm_with_spec(n_dbm, inr_limit_db, path_loss_db, sp, eirp_regulatory_max_dbm, l_polarization_db) ==
    allowed_eirp_dbm_for_path(
        n_dbm, inr_limit_db, path_loss_db, sp.antenna_gain_dbi, sp.rx_losses_db,
        IF IsNone(l_polarization_db) THEN sp.polarization_mismatch_db ELSE Val(l_polarization_db),
        None,
        IF IsNone(eirp_regulatory_max_dbm) THEN Some(sp.max_eirp_dbm) ELSE eirp_regulatory_max_dbm)

eirp_plus_bandwidth(eirp_total_dbm, bandwidth_khz) ==
    eirp_total_dbm + TenLog10MHz(bandwidth_khz)

psd_dbm_per_mhz_from_eirp(eirp_total_dbm, bandwidth_khz) ==
    eirp_total_dbm - TenLog10MHz(bandwidth_khz)

\* DeviceConstraints() defaults
DefaultDeviceConstraints == [min_eirp_dbm |-> 0, min_psd_dbm_per_mhz |-> -1000]

apply_constraints_to_decision(allowed_eirp_dbm, psd_dbm_per_mhz, cons) ==
    IF allowed_eirp_dbm < cons.min_eirp_dbm THEN FALSE
    ELSE IF psd_dbm_per_mhz < cons.min_psd_dbm_per_mhz THEN FALSE
    ELSE TRUE

-----------------------------------------------------------------------------
(* grant_table.py: channel enumeration *)

\* The loop of enumerate_centers_mhz from center c on; on kHz integers the 1e-9 MHz
\* tolerances of the code are below one unit and vanish.
RECURSIVE CentersFrom(_, _, _, _)
CentersFrom(c, lower_khz, upper_khz, bandwidth_khz) ==
    LET half == bandwidth_khz \div 2
    IN IF c + half <= upper_khz
       THEN (IF c - half >= lower_khz /\ c + half <= upper_khz THEN <<c>> ELSE <<>>)
            \o CentersFrom(c + bandwidth_khz, lower_khz, upper_khz, bandwidth_khz)
       ELSE <<>>

\* the enumeration started one step too high
first_center_skipped(lower_khz, upper_khz, bandwidth_khz) ==
    LET n0 == (lower_khz - 5955000 + 2 * bandwidth_khz - 1) \div bandwidth_khz
    IN CentersFrom(5955000 + n0 * bandwidth_khz, lower_khz, upper_khz, bandwidth_khz)

\* n0 = int((lower - origin + step - 1e-9) // step) ; c = origin + n0 * step
enumerate_centers_mhz(lower_khz, upper_khz, bandwidth_khz) ==
    LET n0 == (lower_khz - 5955000 + bandwidth_khz - 1) \div bandwidth_khz
    IN CentersFrom(5955000 + n0 * bandwidth_khz, lower_khz, upper_khz, bandwidth_khz)

\* How a call of enumerate_centers_mhz ends.  step = 0: the floor division `// step` of n0
\* raises ZeroDivisionError.  step > 0: c grows by step until c + bw/2 > upper.  step < 0:
\* n0 is the floor of (lower - origin + step) / step (the 1e-9 moves the quotient up, away
\* from the floor) and `c += step` lowers c at every iteration, so the loop condition
\* c + bw/2 <= upper, when true on entry, is true at every later iteration and the loop
\* never exits; when false on entry the body never runs and the list is empty.
enumerate_centers_ends(lower_khz, upper_khz, bandwidth_khz) ==
    IF bandwidth_khz = 0 THEN "ZeroDivisionError"
    ELSE IF bandwidth_khz > 0 THEN "returns"
    ELSE LET n0 == (-(lower_khz - 5955000 + bandwidth_khz)) \div (-bandwidth_khz)
             c == 5955000 + n0 * bandwidth_khz
         IN IF c + bandwidth_khz \div 2 <= upper_khz THEN "never" ELSE "returns"

\* Python round(): to the nearest integer, ties to the even one
RoundHalfEven(num, den) ==
    LET q == num \div den
        r == num - q * den
    IN IF 2 * r < den THEN q
       ELSE IF 2 * r > den THEN q + 1
       ELSE IF q % 2 = 0 THEN q ELSE q + 1

\* int(round(1 + (center - 5955) / 5))
channel_number_from_center_mhz(center_khz) == 1 + RoundHalfEven(center_khz - 5955000, 5000)

-----------------------------------------------------------------------------
(* grant_table.py: build_grant_table_with_incumbents *)

\* str(pol).upper()[:1]
PolTag(pol) ==
    CASE pol = "" -> ""
      [] pol \in {"H", "h", "horizontal"} -> "H"
      [] pol \in {"V", "v", "vertical"} -> "V"
      [] OTHER -> "X"

\* inc.get(key, default) for an optional field
GetOr(opt, default) == IF IsNone(opt) THEN default ELSE Val(opt)

\* _add_site for the primary FS receiver
PrimarySite(inc, sp) ==
    [fs_center_khz |-> inc.freq_center_mhz,
     fs_bw_khz     |-> inc.bandwidth_mhz,
     fs_rx_gain    |-> GetOr(inc.rx_antenna_gain_dbi, sp.antenna_gain_dbi),
     d_m           |-> inc.d_m,
     rx_az         |-> GetOr(inc.rx_antenna_azimuth_deg, 0),
     pol           |-> PolTag(inc.polarization),
     rx_h_m        |-> inc.rx_antenna_height_m,
     link_id       |-> GetOr(inc.link_id, "unknown")]

\* _add_site for passive site number idx (from 1): absent fields fall back to the record's
PassiveSite(inc, idx, sp) ==
    LET ps == inc.passive_sites[idx]
    IN [fs_center_khz |-> inc.freq_center_mhz,
        fs_bw_khz     |-> inc.bandwidth_mhz,
        fs_rx_gain    |-> GetOr(ps.gain_dbi, GetOr(inc.rx_antenna_gain_dbi, sp.antenna_gain_dbi)),
        d_m           |-> GetOr(ps.d_m, inc.d_m),
        rx_az         |-> GetOr(ps.az_deg, GetOr(inc.rx_antenna_azimuth_deg, 0)),
        pol           |-> PolTag(GetOr(ps.polarization, inc.polarization)),
        rx_h_m        |-> IF IsNone(ps.height_m) THEN inc.rx_antenna_height_m ELSE ps.height_m,
        link_id       |-> GetOr(inc.link_id, "unknown") \o ":PS" \o ToString(idx)]

PrimaryOnly(inc, sp) == <<PrimarySite(inc, sp)>>

\* one incumbent's entries of inc_params: the primary, then the passive sites in order
ExpandIncumbent(inc, sp) ==
    <<PrimarySite(inc, sp)>>
    \o [idx \in 1..Len(inc.passive_sites) |-> PassiveSite(inc, idx, sp)]

RECURSIVE ExpandAll(_, _)
ExpandAll(incs, sp) ==
    IF incs = <<>> THEN <<>> ELSE ExpandIncumbent(Head(incs), sp) \o ExpandAll(Tail(incs), sp)

\* overlaps = min(ch_hi, fs_hi) - max(ch_lo, fs_lo)
Overlap(center_khz, bw_khz, fs_center_khz, fs_bw_khz) ==
    Min2(center_khz + bw_khz \div 2, fs_center_khz + fs_bw_khz \div 2)
    - Max2(center_khz - bw_khz \div 2, fs_center_khz - fs_bw_khz \div 2)

\* the path-model dispatch of the site loop
SitePathLoss(site, center_khz, c) ==
    LET d_m == IF ~IsNone(c.distance_m) THEN Val(c.distance_m) ELSE site.d_m
    IN IF c.path_model = "fspl"
       THEN select_pathloss_db(d_m, center_khz, Some("fspl"), c.environment, c.indoor, c.penetration_db)
       ELSE IF c.path_model = "winner"
       THEN select_pathloss_db(d_m, center_khz, Some("winner2"), c.environment, c.indoor, c.penetration_db)
       ELSE IF c.path_model = "two_slope"
       THEN select_pathloss_db(d_m, center_khz, None, c.environment, c.indoor, c.penetration_db)
       ELSE IF c.path_model = "itm"
       THEN longley_rice_pathloss_db(d_m, center_khz, site.rx_h_m, c.environment)
       ELSE select_pathloss_db(d_m, center_khz, None, c.environment, c.indoor, c.penetration_db)

SitePathLossRaises(site, center_khz, c) ==
    LET d_m == IF ~IsNone(c.distance_m) THEN Val(c.distance_m) ELSE site.d_m
    IN IF c.path_model = "itm" THEN fspl_raises(d_m, center_khz)
       ELSE select_pathloss_raises(d_m, center_khz, None, c.environment)

\* antenna.py: |((bearing - azimuth + 180) mod 360) - 180| in whole degrees
off_axis_azimuth_deg(antenna_azimuth_deg, bearing_to_target_deg) ==
    Abs(((bearing_to_target_deg - antenna_azimuth_deg + 180) % 360) - 180)

\* antenna.py: A = min(12 (delta / HPBW)^2, SLL) per plane
attenuation_parabolic(delta_deg, hpbw_deg, sidelobe_floor_db) ==
    IF hpbw_deg <= 0 THEN sidelobe_floor_db
    ELSE Min2((1200 * delta_deg * delta_deg) \div (hpbw_deg * hpbw_deg), sidelobe_floor_db)

\* antenna.py with the AntennaPatternParams defaults (HPBW 3 degrees, sidelobe floor
\* 20 dB, backlobe floor -10 dBi); the builder passes elevation 0
effective_gain_dbi(g_max_dbi, azimuth_offaxis_deg) ==
    Max2(g_max_dbi - (attenuation_parabolic(azimuth_offaxis_deg, 3, 2000)
                      + attenuation_parabolic(0, 3, 2000)),
         -1000)

\* initial_bearing_deg from the AP to a receiver: the receivers of the model lie due
\* north of the AP, d_m away
BearingToSite == 0

\* g_eff of the site loop; no record of the model carries RPE tables
SiteEffectiveGain(site, c) ==
    IF ~IsNone(c.distance_m) THEN site.fs_rx_gain
    ELSE effective_gain_dbi(site.fs_rx_gain,
                            off_axis_azimuth_deg(site.rx_az, (BearingToSite + 180) % 360))

SpecAcirAt(offset_khz, sp) ==
    LET masks == ensure_defaults(sp.a_tx_db_by_offset_mhz, sp.a_rx_db_by_offset_mhz)
    IN acir_db_from_masks(offset_khz, DictPoints(masks[1]), DictPoints(masks[2]))

\* the body of the site loop: allowed EIRP, path loss, mode and ACIR of one site
SiteEval(site, center_khz, bw_khz, c, sp) ==
    LET offset == Abs(center_khz - site.fs_center_khz)
        overlaps == Overlap(center_khz, bw_khz, site.fs_center_khz, site.fs_bw_khz)
        n_dbm == noise_power_dbm(sp.bandwidth_khz, sp.noise_figure_db)
        pl_db_inc == SitePathLoss(site, center_khz, c)
        l_pol == Some(IF site.pol \in {"H", "V"} THEN 300 ELSE 0)
        co == allowed_eirp_dbm_with_spec(n_dbm, c.inr_limit_db - c.protection_margin_db,
                                         pl_db_inc, sp, None, l_pol)
        g_eff == SiteEffectiveGain(site, c)
    IN IF overlaps > 0
       THEN [eirp |-> co, pl |-> pl_db_inc, mode |-> "co", acir |-> None, g_eff |-> g_eff,
             n_dbm |-> n_dbm]
       ELSE LET acir_val == SpecAcirAt(offset, sp)
            IN [eirp |-> co + acir_val, pl |-> pl_db_inc, mode |-> "adj",
                acir |-> Some(acir_val), g_eff |-> g_eff, n_dbm |-> n_dbm]

\* if eirp < best_eirp: this site becomes the limiting one
IsMoreRestrictive(eirp, best_eirp) == eirp < best_eirp

\* The site loop of one (center, bw).  acc carries best_eirp, best_pl_db and the
\* function-level locals limiting, limiting_mode, limiting_acir, which the loop assigns
\* only when a site lowers best_eirp (bound = FALSE while they were never assigned).
RECURSIVE SiteLoop(_, _, _, _, _, _)
SiteLoop(sites, acc, center_khz, bw_khz, c, sp) ==
    IF sites = <<>> THEN acc
    ELSE LET e == SiteEval(Head(sites), center_khz, bw_khz, c, sp)
             next == IF IsMoreRestrictive(e.eirp, acc.best_eirp)
                     THEN [best_eirp     |-> e.eirp,
                           best_pl_db    |-> Some(e.pl),
                           bound         |-> TRUE,
                           limiting      |-> Some(Head(sites).link_id),
                           limiting_mode |-> Some(e.mode),
                           limiting_acir |-> e.acir]
                     ELSE acc
         IN SiteLoop(Tail(sites), next, center_khz, bw_khz, c, sp)

GrantDecision(best_eirp, psd_dbm_mhz, device_constraints) ==
    IF ~IsNone(device_constraints)
    THEN (IF apply_constraints_to_decision(best_eirp, psd_dbm_mhz, Val(device_constraints))
          THEN "grant" ELSE "deny")
    ELSE (IF best_eirp >= 0 THEN "grant" ELSE "deny")

\* One iteration of the (bw, center) loops.  st = [rows, raised, diverges, locals]; the locals
\* limiting* survive from one iteration to the next.
ChannelStep(st, center_khz, bw_khz, sites, c, sp) ==
    IF st.raised THEN st
    ELSE IF \E i \in 1..Len(sites) : SitePathLossRaises(sites[i], center_khz, c)
    THEN [st EXCEPT !.raised = TRUE]
    ELSE
    LET n_dbm == noise_power_dbm(sp.bandwidth_khz, sp.noise_figure_db)
        start == [st.locals EXCEPT !.best_eirp = sp.max_eirp_dbm, !.best_pl_db = None]
        AfterSites(acc) ==
            LET best_pl_db == IF IsNone(acc.best_pl_db)
                              THEN select_pathloss_db(GetOr(c.distance_m, 3000), center_khz,
                                                      None, c.environment, FALSE, None)
                              ELSE Val(acc.best_pl_db)
                psd_dbm_mhz == psd_dbm_per_mhz_from_eirp(acc.best_eirp, bw_khz)
            IN IF IsNone(acc.best_pl_db)
                  /\ select_pathloss_raises(GetOr(c.distance_m, 3000), center_khz, None,
                                            c.environment)
               THEN [st EXCEPT !.raised = TRUE]
               ELSE IF ~acc.bound
               THEN [st EXCEPT !.raised = TRUE]   \* UnboundLocalError: limiting was never assigned
               ELSE [rows |-> Append(st.rows,
                         [channel_number          |-> channel_number_from_center_mhz(center_khz),
                          center_mhz              |-> center_khz,
                          bandwidth_mhz           |-> bw_khz,
                          offset_mhz              |-> 0,
                          path_loss_db            |-> best_pl_db,
                          noise_dbm               |-> n_dbm,
                          allowed_eirp_dbm        |-> acc.best_eirp,
                          allowed_psd_dbm_per_mhz |-> psd_dbm_mhz,
                          decision                |-> GrantDecision(acc.best_eirp, psd_dbm_mhz,
                                                                    c.device_constraints),
                          limiting_incumbent      |-> acc.limiting,
                          limiting_mode           |-> acc.limiting_mode,
                          acir_db_used            |-> acc.limiting_acir]),
                     raised |-> FALSE,
                     diverges |-> FALSE,
                     locals |-> acc]
    IN AfterSites(SiteLoop(sites, start, center_khz, bw_khz, c, sp))

RECURSIVE CenterLoop(_, _, _, _, _, _)
CenterLoop(st, centers, bw_khz, sites, c, sp) ==
    IF centers = <<>> THEN st
    ELSE CenterLoop(ChannelStep(st, Head(centers), bw_khz, sites, c, sp),
                    Tail(centers), bw_khz, sites, c, sp)

RECURSIVE BandwidthLoop(_, _, _, _, _)
BandwidthLoop(st, bws, sites, c, sp) ==
    IF bws = <<>> \/ st.raised THEN st
    ELSE LET ends == enumerate_centers_ends(c.lower_mhz, c.upper_mhz, Head(bws))
         IN IF ends = "ZeroDivisionError" THEN [st EXCEPT !.raised = TRUE]
            ELSE IF ends = "never" THEN [st EXCEPT !.diverges = TRUE]
            ELSE BandwidthLoop(
                     CenterLoop(st,
                                IF Head(bws) > 0
                                THEN enumerate_centers_mhz(c.lower_mhz, c.upper_mhz, Head(bws))
                                ELSE <<>>,
                                Head(bws), sites, c, sp),
                     Tail(bws), sites, c, sp)

\* [rows, raised, diverges] of one call: diverges when the call never returns
build_grant_table_with_incumbents(sp, incs, c) ==
    BandwidthLoop(
        [rows |-> <<>>, raised |-> FALSE, diverges |-> FALSE,
         locals |-> [best_eirp |-> sp.max_eirp_dbm, best_pl_db |-> None, bound |-> FALSE,
                     limiting |-> None, limiting_mode |-> None, limiting_acir |-> None]],
        c.bandwidths_mhz, ExpandAll(incs, sp), c, sp)

-----------------------------------------------------------------------------
(* fs_bandwidth.py *)

\* the characters of the designator strings of the model
Chars(designator) ==
    CASE designator = "25M0F7W" -> <<"2", "5", "M", "0", "F", "7", "W">>
      [] designator = "200K0F3E" -> <<"2", "0", "0", "K", "0", "F", "3", "E">>
      [] designator = "5M50D7W" -> <<"5", "M", "5", "0", "D", "7", "W">>
      [] designator = "40m0f7w" -> <<"4", "0", "m", "0", "f", "7", "w">>
      [] designator = "0M00F7W" -> <<"0", "M", "0", "0", "F", "7", "W">>
      [] designator = "1250K0F7W" -> <<"1", "2", "5", "0", "K", "0", "F", "7", "W">>
      [] designator = "180KF3E" -> <<"1", "8", "0", "K", "F", "3", "E">>
      [] designator = "XYZ" -> <<"X", "Y", "Z">>
      [] designator = "" -> <<>>

DigitChars == <<"0", "1", "2", "3", "4", "5", "6", "7", "8", "9">>
IsDigit(ch) == \E d \in 1..10 : DigitChars[d] = ch
\* int() of one digit
DigitValue(ch) == (CHOOSE d \in 1..10 : DigitChars[d] = ch) - 1

RECURSIVE IntOfDigits(_)
IntOfDigits(chars) ==
    IF chars = <<>> THEN 0
    ELSE 10 * IntOfDigits(SubSeq(chars, 1, Len(chars) - 1)) + DigitValue(chars[Len(chars)])

\* the unit letter in upper case (re.IGNORECASE, then .upper()); "" for any other character
UnitOf(ch) ==
    CASE ch \in {"H", "h"} -> "H"
      [] ch \in {"K", "k"} -> "K"
      [] ch \in {"M", "m"} -> "M"
      [] ch \in {"G", "g"} -> "G"
      [] OTHER -> ""

\* ([0-9]{1,3})([HKMG])([0-9]) matches n digits from position i
MatchesAt(chars, i, n) ==
    /\ i + n + 1 <= Len(chars)
    /\ \A j \in i..(i + n - 1) : IsDigit(chars[j])
    /\ UnitOf(chars[i + n]) # ""
    /\ IsDigit(chars[i + n + 1])

\* (whole + frac_digit / 10) * _UNIT_SCALE[unit], in whole kHz
ScaledValue(whole, unit, frac_digit) ==
    CASE unit = "H" -> (10 * whole + frac_digit) \div 10000
      [] unit = "K" -> (10 * whole + frac_digit) \div 10
      [] unit = "M" -> (10 * whole + frac_digit) * 100
      [] unit = "G" -> (10 * whole + frac_digit) * 100000

\* re.search: the leftmost position where the pattern matches (at one position at most one
\* digit count can match); None when the pattern matches nowhere or the string is empty
parse_emission_designator_bw_hz(designator) ==
    LET chars == Chars(designator)
        starts == {i \in 1..Len(chars) : \E n \in 1..3 : MatchesAt(chars, i, n)}
    IN IF starts = {} THEN None
       ELSE LET i == CHOOSE x \in starts : \A y \in starts : x <= y
                n == CHOOSE x \in 1..3 : MatchesAt(chars, i, x)
            IN Some(ScaledValue(IntOfDigits(SubSeq(chars, i, i + n - 1)),
                                UnitOf(chars[i + n]),
                                DigitValue(chars[i + n + 1])))

\* the resolver with the explicit bandwidth ahead of the designator
explicit_beats_designator(sp, emission_designator, explicit_rx_bw_hz, ul_bandwidth_hz) ==
    LET bw_from_ed == IF ~IsNone(emission_designator) /\ emission_designator # Some("")
                      THEN parse_emission_designator_bw_hz(Val(emission_designator))
                      ELSE None
    IN IF ~IsNone(explicit_rx_bw_hz) /\ Val(explicit_rx_bw_hz) > 0 THEN Val(explicit_rx_bw_hz)
       ELSE IF ~IsNone(bw_from_ed) /\ Val(bw_from_ed) > 0 THEN Val(bw_from_ed)
       ELSE IF ~IsNone(ul_bandwidth_hz) /\ Val(ul_bandwidth_hz) > 0 THEN Val(ul_bandwidth_hz)
       ELSE sp.bandwidth_khz

\* precedence: emission designator, explicit Rx bandwidth, recorded bandwidth, spec default;
\* a source wins only when it is truthy and > 0
determine_fs_noise_bw_hz(sp, emission_designator, explicit_rx_bw_hz, ul_bandwidth_hz) ==
    LET bw_from_ed == IF ~IsNone(emission_designator) /\ emission_designator # Some("")
                      THEN parse_emission_designator_bw_hz(Val(emission_designator))
                      ELSE None
    IN IF ~IsNone(bw_from_ed) /\ Val(bw_from_ed) > 0 THEN Val(bw_from_ed)
       ELSE IF ~IsNone(explicit_rx_bw_hz) /\ Val(explicit_rx_bw_hz) > 0 THEN Val(explicit_rx_bw_hz)
       ELSE IF ~IsNone(ul_bandwidth_hz) /\ Val(ul_bandwidth_hz) > 0 THEN Val(ul_bandwidth_hz)
       ELSE sp.bandwidth_khz

-----------------------------------------------------------------------------
(* grant_table.py: build_grant_table_for_hypothetical_fs *)

\* one iteration of the (bw, center) loops: the GrantRow appended
HypotheticalRow(center_khz, bw_khz, c, sp) ==
    LET offset == Abs(center_khz - c.fs_center_mhz)
        pl_db == select_pathloss_db(Val(c.distance_m), center_khz, None, c.environment,
                                    c.indoor, c.penetration_db)
        n_bw == determine_fs_noise_bw_hz(sp, c.emission_designator,
                                         c.override_fs_bandwidth_hz, None)
        n_dbm == noise_power_dbm(n_bw, sp.noise_figure_db)
        overlaps == Overlap(center_khz, bw_khz, c.fs_center_mhz, n_bw)
        co == allowed_eirp_dbm_with_spec(n_dbm, c.inr_limit_db - c.protection_margin_db,
                                         pl_db, sp, None, None)
        acir_val == SpecAcirAt(offset, sp)
        eirp_dbm == IF overlaps > 0 THEN co ELSE co + acir_val
        psd_dbm_mhz == psd_dbm_per_mhz_from_eirp(eirp_dbm, bw_khz)
    IN [channel_number          |-> channel_number_from_center_mhz(center_khz),
        center_mhz              |-> center_khz,
        bandwidth_mhz           |-> bw_khz,
        offset_mhz              |-> RoundHalfEven(offset, 1000),
        path_loss_db            |-> pl_db,
        noise_dbm               |-> n_dbm,
        allowed_eirp_dbm        |-> eirp_dbm,
        allowed_psd_dbm_per_mhz |-> psd_dbm_mhz,
        decision                |-> GrantDecision(eirp_dbm, psd_dbm_mhz, c.device_constraints),
        limiting_incumbent      |-> None,
        limiting_mode           |-> Some(IF overlaps > 0 THEN "co" ELSE "adj"),
        acir_db_used            |-> IF overlaps > 0 THEN None ELSE Some(acir_val)]

RECURSIVE HypotheticalRows(_, _, _)
HypotheticalRows(bws, c, sp) ==
    IF bws = <<>> THEN <<>>
    ELSE LET centers == enumerate_centers_mhz(c.lower_mhz, c.upper_mhz, Head(bws))
         IN [i \in 1..Len(centers) |-> HypotheticalRow(centers[i], Head(bws), c, sp)]
            \o HypotheticalRows(Tail(bws), c, sp)

build_grant_table_for_hypothetical_fs(sp, c) ==
    IF /\ select_pathloss_raises(Val(c.distance_m), 5955000, None, c.environment)
       /\ \E i \in 1..Len(c.bandwidths_mhz) :
              enumerate_centers_mhz(c.lower_mhz, c.upper_mhz, c.bandwidths_mhz[i]) # <<>>
    THEN [rows |-> <<>>, raised |-> TRUE]
    ELSE [rows |-> HypotheticalRows(c.bandwidths_mhz, c, sp), raised |-> FALSE]

-----------------------------------------------------------------------------
(* Inputs of the grant-table builders *)

MaxSites == 2

\* IncumbentReceiverParams / WiFiRegulatoryLimits dataclass defaults, and the ACIR tables
\* of parse_spec_text_to_params
SpecParameterSets ==
    {[noise_figure_db |-> 500, bandwidth_khz |-> 20000, antenna_gain_dbi |-> 3000,
      rx_losses_db |-> 100, polarization_mismatch_db |-> 0, max_eirp_dbm |-> 3600,
      a_tx_db_by_offset_mhz |-> (20 :> 3000) @@ (40 :> 3500),
      a_rx_db_by_offset_mhz |-> (20 :> 3000) @@ (40 :> 3500)]}

FsCenters == {5975000, 6015000}
SiteDistances == {300, 30000}

PassiveSiteKinds ==
    {[d_m |-> Some(d), gain_dbi |-> None, polarization |-> Some(""), height_m |-> None,
      az_deg |-> None] :
        d \in SiteDistances}

\* a receiver that looks at the AP with a 38 dBi dish and is licensed with an emission
\* designator of 25 MHz
DesignatedIncumbent ==
    [link_id |-> Some("FS5975-ED"), freq_center_mhz |-> 5975000, bandwidth_mhz |-> 20000,
     d_m |-> 300, polarization |-> "H", rx_antenna_gain_dbi |-> Some(3800),
     rx_antenna_height_m |-> None, passive_sites |-> <<>>,
     rx_antenna_azimuth_deg |-> Some(180), emission_designator |-> Some("25M0F7W")]

IncumbentKinds(n) ==
    {[link_id |-> Some("FS" \o ToString(fc \div 1000) \o "-" \o ToString(d)),
      freq_center_mhz |-> fc, bandwidth_mhz |-> 20000, d_m |-> d, polarization |-> "H",
      rx_antenna_gain_dbi |-> None, rx_antenna_height_m |-> None, passive_sites |-> ps,
      rx_antenna_azimuth_deg |-> None, emission_designator |-> None] :
        fc \in FsCenters, d \in SiteDistances, ps \in SeqsUpTo(PassiveSiteKinds, n - 1)}
    \cup {DesignatedIncumbent}

SiteCount(inc) == 1 + Len(inc.passive_sites)

\* every list of incumbent records with at most n protection sites in all
RECURSIVE IncumbentLists(_)
IncumbentLists(n) ==
    IF n = 0 THEN {<<>>}
    ELSE {<<>>} \cup UNION {{<<inc>> \o rest : rest \in IncumbentLists(n - SiteCount(inc))} :
                              inc \in IncumbentKinds(n)}

Bands == {<<5965000, 6025000>>, <<5945000, 5965000>>, <<5925000, 5965000>>}
BandwidthSets == {<<20000>>, <<20000, 40000>>}
\* bandwidth lists with a zero or negative member
NonPositiveBandwidthSets == {<<0>>, <<-20000>>, <<20000, -20000>>}
Environments == {None, Some("indoor")}
PathModels == {"auto", "fspl", "winner", "two_slope", "itm"}
DeviceConstraintSets ==
    {None, Some(DefaultDeviceConstraints),
     Some([min_eirp_dbm |-> 1000, min_psd_dbm_per_mhz |-> -2000])}
HypotheticalDistances == {300, 3000, 30000}

NoCall == [builder |-> "none"]
NoRequest == [kind |-> "none"]

-----------------------------------------------------------------------------
(* The builders as operations *)

InitGrant ==
    /\ spec \in SpecParameterSets
    /\ incumbents \in IncumbentLists(MaxSites)
    /\ call = NoCall
    /\ rows = <<>>
    /\ outcome = "none"
    /\ request = NoRequest
    /\ policy = NoRequest
    /\ response = NoRequest

CallBuildWithIncumbents ==
    /\ outcome = "none"
    /\ \E distance_m \in {None, Some(3000)}, band \in Bands,
          bws \in BandwidthSets \cup NonPositiveBandwidthSets,
          environment \in Environments, path_model \in PathModels,
          device_constraints \in DeviceConstraintSets :
        LET c == [builder |-> "with_incumbents", distance_m |-> distance_m,
                  lower_mhz |-> band[1], upper_mhz |-> band[2], bandwidths_mhz |-> bws,
                  inr_limit_db |-> -600, environment |-> environment,
                  path_model |-> path_model, device_constraints |-> device_constraints,
                  indoor |-> FALSE, penetration_db |-> None, protection_margin_db |-> 0]
            Return(r) == /\ call' = c
                         /\ rows' = IF r.raised \/ r.diverges THEN <<>> ELSE r.rows
                         /\ outcome' = IF r.raised THEN "raised"
                                       ELSE IF r.diverges THEN "diverges" ELSE "returned"
        IN Return(build_grant_table_with_incumbents(spec, incumbents, c))
    /\ UNCHANGED <<spec, incumbents, request, policy, response>>

\* the builder takes no incumbent list: it is called from the state with the empty one
CallBuildHypothetical ==
    /\ outcome = "none"
    /\ incumbents = <<>>
    /\ \E distance_m \in HypotheticalDistances, band \in Bands, bws \in BandwidthSets,
          environment \in Environments, device_constraints \in DeviceConstraintSets,
          emission_designator \in {None, Some("25M0F7W")} :
        LET c == [builder |-> "hypothetical_fs", distance_m |-> Some(distance_m),
                  lower_mhz |-> band[1], upper_mhz |-> band[2], fs_center_mhz |-> 5975000,
                  bandwidths_mhz |-> bws, inr_limit_db |-> -600, environment |-> environment,
                  override_fs_bandwidth_hz |-> None, emission_designator |-> emission_designator,
                  device_constraints |-> device_constraints,
                  indoor |-> FALSE, penetration_db |-> None, protection_margin_db |-> 0]
            Return(r) == /\ call' = c
                         /\ rows' = IF r.raised THEN <<>> ELSE r.rows
                         /\ outcome' = IF r.raised THEN "raised" ELSE "returned"
        IN Return(build_grant_table_for_hypothetical_fs(spec, c))
    /\ UNCHANGED <<spec, incumbents, request, policy, response>>

-----------------------------------------------------------------------------
(* aggregate.py, multi_ap.py: aggregate INR of several APs at each receiver *)

\* 10 log10(10^(a/10) + 10^(b/10)): the larger level plus 10 log10(1 + 10^(-|a-b|/10))
PowerSumDbm(a, b) ==
    LET diff == Abs(a - b)
        At(d) == IF d + 1 <= Len(ParallelLossTable) THEN ParallelLossTable[d + 1] ELSE 0
        lower == At(diff \div 100)
        upper == At(diff \div 100 + 1)
    IN Max2(a, b) + (lower - ((lower - upper) * (diff % 100)) \div 100)

\* aggregate_interference_dbm: the linear sum of the components, None for -inf (0 mW)
RECURSIVE aggregate_interference_dbm(_)
aggregate_interference_dbm(components_dbm) ==
    IF components_dbm = <<>> THEN None
    ELSE LET n == Len(components_dbm)
             rest == aggregate_interference_dbm(SubSeq(components_dbm, 1, n - 1))
         IN IF IsNone(rest) THEN Some(components_dbm[n])
            ELSE Some(PowerSumDbm(Val(rest), components_dbm[n]))

\* inr_db_from_components: None for -inf
inr_db_from_components(i_components_dbm, noise_dbm) ==
    LET i_agg_dbm == aggregate_interference_dbm(i_components_dbm)
    IN IF IsNone(i_agg_dbm) THEN None ELSE Some(Val(i_agg_dbm) - noise_dbm)

\* worst_inr = -1e9 (dB) before the loop: below every INR of the model, above -inf
WorstInrStart == -1000000000

\* inr_db > worst_inr, with -inf (None) greater than nothing
ExceedsWorst(inr_db, worst_inr) == ~IsNone(inr_db) /\ Val(inr_db) > worst_inr

\* aggregate.py: the interference of one AP at one receiver.  The APs of the model stand
\* at the reference point, the receiver d_m due north of it.
AggregateComponent(inc, ap, center_khz, bandwidth_khz, environment, sp) ==
    LET fs_bw_khz == inc.bandwidth_mhz
        overlaps == Overlap(center_khz, bandwidth_khz, inc.freq_center_mhz, fs_bw_khz)
        pl_db == select_pathloss_db(inc.d_m, center_khz, None, environment, FALSE, None)
        delta_az == off_axis_azimuth_deg(GetOr(inc.rx_antenna_azimuth_deg, 0),
                                         (BearingToSite + 180) % 360)
        g_eff == effective_gain_dbi(GetOr(inc.rx_antenna_gain_dbi, sp.antenna_gain_dbi),
                                    delta_az)
        i_co_dbm == ap.eirp_dbm - pl_db + g_eff - sp.rx_losses_db + sp.polarization_mismatch_db
    IN IF overlaps > 0 THEN i_co_dbm
       ELSE i_co_dbm - SpecAcirAt(Abs(center_khz - inc.freq_center_mhz), sp)

\* the loop over the incumbents; st = [details, worst_inr, worst_id]
RECURSIVE AggregateLoop(_, _, _, _, _, _, _)
AggregateLoop(st, incs, aps, center_khz, bandwidth_khz, environment, sp) ==
    IF incs = <<>> THEN st
    ELSE LET inc == Head(incs)
             link_id == GetOr(inc.link_id, "unknown")
             n_dbm == noise_power_dbm(sp.bandwidth_khz, sp.noise_figure_db)
             i_components == [a \in 1..Len(aps) |->
                                AggregateComponent(inc, aps[a], center_khz, bandwidth_khz,
                                                   environment, sp)]
             After(inr_db) ==
                 [details |-> Append(st.details, [incumbent |-> link_id, inr_db |-> inr_db,
                                                  num_aps |-> Len(aps)]),
                  worst_inr |-> IF ExceedsWorst(inr_db, st.worst_inr) THEN Val(inr_db)
                                ELSE st.worst_inr,
                  worst_id |-> IF ExceedsWorst(inr_db, st.worst_inr) THEN Some(link_id)
                               ELSE st.worst_id]
         IN AggregateLoop(After(inr_db_from_components(i_components, n_dbm)), Tail(incs), aps,
                          center_khz, bandwidth_khz, environment, sp)

\* aggregate.evaluate_aggregate_inr_for_channel
aggregate_evaluate_aggregate_inr_for_channel(sp, incs, aps, center_khz, bandwidth_khz, inr_limit_db, environment) ==
    LET Result(st) ==
            [center_mhz |-> center_khz, bandwidth_mhz |-> bandwidth_khz,
             worst_inr_db |-> st.worst_inr, limiting_incumbent |-> st.worst_id,
             meets_inr_limit |-> st.worst_inr <= inr_limit_db, details |-> st.details]
    IN Result(AggregateLoop([details |-> <<>>, worst_inr |-> WorstInrStart, worst_id |-> None],
                            incs, aps, center_khz, bandwidth_khz, environment, sp))

\* multi_ap._path_loss
MultiApPathLoss(distance_m, f_khz, environment, path_model, rx_h_m) ==
    IF path_model = "fspl"
    THEN select_pathloss_db(distance_m, f_khz, Some("fspl"), environment, FALSE, None)
    ELSE IF path_model = "winner"
    THEN select_pathloss_db(distance_m, f_khz, Some("winner2"), environment, FALSE, None)
    ELSE IF path_model = "itm"
    THEN longley_rice_pathloss_db(distance_m, f_khz, rx_h_m, environment)
    ELSE select_pathloss_db(distance_m, f_khz, None, environment, FALSE, None)

\* multi_ap.py: i_dbm of one AP at one receiver; the default gain is 30 dBi
MultiApComponent(inc, ap, center_khz, environment, path_model) ==
    LET pl_db == MultiApPathLoss(inc.d_m, center_khz, environment, path_model,
                                 inc.rx_antenna_height_m)
        delta_az == off_axis_azimuth_deg(GetOr(inc.rx_antenna_azimuth_deg, 0),
                                         (BearingToSite + 180) % 360)
        g_eff == effective_gain_dbi(GetOr(inc.rx_antenna_gain_dbi, 3000), delta_az)
    IN ap.eirp_dbm - pl_db + g_eff

\* one entry of results; the noise uses the record's bandwidth_mhz and NF 4.5 dB
MultiApResult(inc, ap_sites, center_khz, inr_limit_db, environment, path_model) ==
    LET n_dbm == noise_power_dbm(inc.bandwidth_mhz, 450)
        comps == [a \in 1..Len(ap_sites) |->
                    MultiApComponent(inc, ap_sites[a], center_khz, environment, path_model)]
        Entry(inr_db) ==
            [link_id |-> GetOr(inc.link_id, "unknown"), inr_db |-> inr_db,
             pass |-> IsNone(inr_db) \/ Val(inr_db) <= inr_limit_db, components |-> comps]
    IN Entry(inr_db_from_components(comps, n_dbm))

\* multi_ap.evaluate_aggregate_inr_for_channel, the function the package exports; bw_mhz
\* is not read
multi_ap_evaluate_aggregate_inr_for_channel(incs, ap_sites, center_khz, bw_khz, inr_limit_db, environment, path_model) ==
    [k \in 1..Len(incs) |->
        MultiApResult(incs[k], ap_sites, center_khz, inr_limit_db, environment, path_model)]

\* AP dicts {lat, lon, eirp_dbm} at the reference point
ApLists ==
    {<<>>, <<[eirp_dbm |-> 3600]>>, <<[eirp_dbm |-> 3600], [eirp_dbm |-> 2400]>>}
AggregateChannels == {<<5975000, 20000>>, <<5995000, 20000>>}

CallEvaluateAggregate ==
    /\ outcome = "none"
    /\ \E aps \in ApLists, channel \in AggregateChannels, environment \in Environments :
        /\ call' = [builder |-> "aggregate.evaluate_aggregate_inr_for_channel", aps |-> aps,
                    center_mhz |-> channel[1], bandwidth_mhz |-> channel[2],
                    inr_limit_db |-> -600, environment |-> environment]
        /\ response' = aggregate_evaluate_aggregate_inr_for_channel(
                           spec, incumbents, aps, channel[1], channel[2], -600, environment)
    /\ outcome' = "computed"
    /\ UNCHANGED <<spec, incumbents, rows, request, policy>>

CallEvaluateAggregateMultiAp ==
    /\ outcome = "none"
    /\ \E ap_sites \in ApLists, channel \in AggregateChannels, path_model \in {"auto", "fspl"} :
        /\ call' = [builder |-> "multi_ap.evaluate_aggregate_inr_for_channel",
                    aps |-> ap_sites, center_mhz |-> channel[1], bandwidth_mhz |-> channel[2],
                    inr_limit_db |-> -600, environment |-> None, path_model |-> path_model]
        /\ response' = [kind |-> "value",
                        value |-> multi_ap_evaluate_aggregate_inr_for_channel(
                                      incumbents, ap_sites, channel[1], channel[2], -600,
                                      None, path_model)]
    /\ outcome' = "computed"
    /\ UNCHANGED <<spec, incumbents, rows, request, policy>>

NextGrant ==
    \/ CallBuildWithIncumbents
    \/ CallBuildHypothetical
    \/ CallEvaluateAggregate
    \/ CallEvaluateAggregateMultiAp

Spec == InitGrant /\ [][NextGrant]_vars

-----------------------------------------------------------------------------
(* protocol.py: request values and response records *)

\* A JSON value of a request is a record tagged with its Python type; Absent is a key
\* that is not in the dict, Null a key bound to None.  A float carries thousandths.
Absent == [t |-> "absent"]
Null == [t |-> "null"]
IntV(n) == [t |-> "int", v |-> n]
FloatV(n) == [t |-> "float", v |-> n]
StrV(s) == [t |-> "str", s |-> s]
BoolV(b) == [t |-> "bool", b |-> b]
ListV(s) == [t |-> "list", items |-> s]

IsDict(x) == x.t = "dict"
IsList(x) == x.t = "list"
\* d.get(key) is None
IsMissing(x) == x.t \in {"absent", "null"}
\* key in d
HasKey(x) == x.t # "absent"

\* float(s) of a string, in thousandths; None when float() raises ValueError
ParseFloat(s) ==
    CASE s = "41.0" -> Some(41000)
      [] s = "29.0" -> Some(29000)
      [] s = "5966" -> Some(5966000)
      [] s = "3" -> Some(3000)
      [] OTHER -> None

\* _is_number: float(x) succeeds
is_number(x) ==
    \/ x.t \in {"int", "float", "bool"}
    \/ (x.t = "str" /\ ~IsNone(ParseFloat(x.s)))

\* float(x) in thousandths, for x with is_number(x)
float_of(x) ==
    CASE x.t = "int" -> x.v * 1000
      [] x.t = "float" -> x.v
      [] x.t = "bool" -> (IF x.b THEN 1000 ELSE 0)
      [] x.t = "str" -> Val(ParseFloat(x.s))

\* bool(x)
Truthy(x) ==
    CASE x.t \in {"absent", "null"} -> FALSE
      [] x.t = "bool" -> x.b
      [] x.t \in {"int", "float"} -> x.v # 0
      [] x.t = "str" -> x.s # ""
      [] x.t = "list" -> x.items # <<>>
      [] OTHER -> TRUE

\* str(x) of a string or an integer
StrOf(x) == IF x.t = "str" THEN x.s ELSE ToString(x.v)

RC_SUCCESS == 0
RC_DEVICE_DISALLOWED == 101
RC_MISSING_PARAM == 102
RC_INVALID_VALUE == 103
RC_UNEXPECTED_PARAM == 106
RC_UNSUPPORTED_BASIS == 301

\* _expiry_iso8601: now + 900 s, kept as the offset in seconds
ExpirySeconds == 900

\* a response dict; the keys the handler did not set are None.  invalidParams is kept
\* as a set: the channel path returns list(set(invalid)), in no fixed order.
Response(code) ==
    [kind |-> "response", responseCode |-> code, missingParams |-> None,
     invalidParams |-> None, unexpectedParams |-> None, availabilityExpireTime |-> None,
     availableFrequencyInfo |-> None, availableChannelInfo |-> None]

\* the handler left by an exception (of any class) instead of a response
Raised(error) == [kind |-> "raised", error |-> error]

\* a call that never returns
NeverReturns == [kind |-> "diverges"]

\* what one call of the handler did: its response or exception, the check it returned
\* from, whether it evaluated any spectrum, and the rows of its first spectrum_inquiry
Done(resp, returned_at, evaluated, grant_rows) ==
    [response |-> resp, returned_at |-> returned_at, evaluated |-> evaluated,
     rows |-> grant_rows]

-----------------------------------------------------------------------------
(* protocol.py: the checks of handle_available_spectrum_inquiry, in source order *)

\* the keyword overrides are written into the request dict
ThreadOverrides(req, pol) ==
    [req EXCEPT
        !.environment = IF ~IsNone(pol.environment) THEN StrV(Val(pol.environment)) ELSE @,
        !.pathModel = IF ~IsNone(pol.path_model) THEN StrV(Val(pol.path_model)) ELSE @,
        !.protectionMarginDb = IF ~IsNone(pol.protection_margin_db)
                               THEN FloatV(Val(pol.protection_margin_db)) ELSE @]

\* top-level location when it is a dict, else device.location when device is a dict
ResolveLocation(req) ==
    IF ~IsDict(req.location) /\ IsDict(req.device) THEN req.device.location
    ELSE req.location

MissingLatOnly(loc) ==
    IF ~IsDict(loc) THEN <<"location">>
    ELSE IF ~is_number(loc.lat) THEN <<"location.lat">> ELSE <<>>

LocationMissing(loc) ==
    IF ~IsDict(loc) THEN <<"location">>
    ELSE (IF ~is_number(loc.lat) THEN <<"location.lat">> ELSE <<>>)
         \o (IF ~is_number(loc.lon) THEN <<"location.lon">> ELSE <<>>)

\* [f for f in ("ellipse", "linearPolygon", "radialPolygon") if f in loc]
HorizFields(loc) ==
    IF ~IsDict(loc) THEN <<>>
    ELSE SelectSeq(<<"ellipse", "linearPolygon", "radialPolygon">>,
                   LAMBDA f : f \in loc.horiz)

\* None when the location check passes, else Some(response)
LocationCheck(req) ==
    LET loc == ResolveLocation(req)
        missing == LocationMissing(loc)
        horiz_fields == HorizFields(loc)
    IN IF Len(horiz_fields) > 1
       THEN Some([Response(RC_UNEXPECTED_PARAM) EXCEPT !.unexpectedParams = Some(horiz_fields)])
       ELSE IF missing # <<>>
       THEN Some([Response(RC_MISSING_PARAM) EXCEPT !.missingParams = Some(missing)])
       ELSE None

CertId(req) == IF IsDict(req.certification) THEN req.certification.id ELSE Absent
CertSerial(req) == IF IsDict(req.certification) THEN req.certification.serialNumber ELSE Absent

\* cert_id in set(ids) for a set of strings
InIds(cert_id, ids) == cert_id.t = "str" /\ cert_id.s \in ids

\* None when the certification check passes, else Some(response)
CertificationCheck(req, pol) ==
    LET cert_id == CertId(req)
        serial == CertSerial(req)
    IN IF /\ ~IsNone(pol.certified_ids)
          /\ ~IsMissing(cert_id)
          /\ ~InIds(cert_id, Val(pol.certified_ids))
       THEN Some([Response(RC_INVALID_VALUE) EXCEPT !.invalidParams = Some({"certification.id"})])
       ELSE IF /\ ~IsNone(pol.disallowed_ids)
               /\ ~IsMissing(cert_id)
               /\ InIds(cert_id, Val(pol.disallowed_ids))
       THEN Some(Response(RC_DEVICE_DISALLOWED))
       ELSE IF /\ ~IsNone(pol.disallowed_pairs)
               /\ ~IsMissing(cert_id)
               /\ ~IsMissing(serial)
               /\ cert_id.t = "str"
               /\ <<cert_id.s, StrOf(serial)>> \in Val(pol.disallowed_pairs)
       THEN Some(Response(RC_DEVICE_DISALLOWED))
       ELSE None

\* None when at most one of the two query kinds is a list, else Some(response)
MutualExclusionCheck(req) ==
    IF IsList(req.inquiredFrequencyRange) /\ IsList(req.inquiredChannels)
    THEN Some([Response(RC_UNEXPECTED_PARAM) EXCEPT
                  !.unexpectedParams = Some(<<"inquiredFrequencyRange", "inquiredChannels">>)])
    ELSE None

-----------------------------------------------------------------------------
(* protocol.py: options read from the request *)

\* request.get("environment", "urban"), as the Optional[str] handed to the path loss
EnvironmentOf(req) ==
    IF req.environment.t = "absent" THEN Some("urban")
    ELSE IF req.environment.t = "null" THEN None
    ELSE Some(req.environment.s)

\* request.get("pathModel", "auto")
PathModelOf(req) ==
    IF req.pathModel.t = "absent" THEN "auto"
    ELSE IF req.pathModel.t = "null" THEN "None"
    ELSE req.pathModel.s

\* float(request.get("protectionMarginDb", 0.0)) raises ValueError or TypeError
MarginRaises(req) == HasKey(req.protectionMarginDb) /\ ~is_number(req.protectionMarginDb)

\* the margin in centi-dB
MarginOf(req) ==
    IF ~HasKey(req.protectionMarginDb) THEN 0 ELSE float_of(req.protectionMarginDb) \div 10

\* bool(request.get("mergeBins", True))
MergeBinsOf(req) == IF ~HasKey(req.mergeBins) THEN TRUE ELSE Truthy(req.mergeBins)

ToleranceRaises(req) == HasKey(req.mergeToleranceDb) /\ ~is_number(req.mergeToleranceDb)

\* float(request.get("mergeToleranceDb", 1e-6)) in micro-dB
ToleranceOf(req) ==
    IF ~HasKey(req.mergeToleranceDb) THEN 1 ELSE float_of(req.mergeToleranceDb) * 1000

-----------------------------------------------------------------------------
(* protocol.py: frequency-based query *)

\* the try block of one inquiredFrequencyRange item: Some(<<lo, hi>>) in kHz, or None
\* when the item has neither key pair or a bound is not a number
ParseRange(fr) ==
    IF ~IsDict(fr) THEN None
    ELSE IF HasKey(fr.lowMHz) /\ HasKey(fr.highMHz)
    THEN (IF is_number(fr.lowMHz) /\ is_number(fr.highMHz)
          THEN Some(<<float_of(fr.lowMHz), float_of(fr.highMHz)>>) ELSE None)
    ELSE IF HasKey(fr.startMHz) /\ HasKey(fr.endMHz)
    THEN (IF is_number(fr.startMHz) /\ is_number(fr.endMHz)
          THEN Some(<<float_of(fr.startMHz), float_of(fr.endMHz)>>) ELSE None)
    ELSE None

\* allowed EIRP of the 1 MHz bin [f, f+1] against one incumbent record (its primary
\* receiver only)
BinEirp(inc, f_mhz, env, margin, sp) ==
    LET center_khz == f_mhz * 1000 + 500
        n_dbm == noise_power_dbm(sp.bandwidth_khz, sp.noise_figure_db)
        pl_db == select_pathloss_db(inc.d_m, center_khz, None, env, FALSE, None)
        overlaps == Min2((f_mhz + 1) * 1000, inc.freq_center_mhz + inc.bandwidth_mhz \div 2)
                    - Max2(f_mhz * 1000, inc.freq_center_mhz - inc.bandwidth_mhz \div 2)
        l_pol == Some(IF PolTag(inc.polarization) \in {"H", "V"} THEN 300 ELSE 0)
        co == allowed_eirp_dbm_with_spec(n_dbm, -600 - margin, pl_db, sp, None, l_pol)
    IN IF overlaps > 0 THEN co
       ELSE co + SpecAcirAt(Abs(center_khz - inc.freq_center_mhz), sp)

RECURSIVE BinBest(_, _, _, _, _, _)
BinBest(incs, best_eirp, f_mhz, env, margin, sp) ==
    IF incs = <<>> THEN best_eirp
    ELSE LET eirp == BinEirp(Head(incs), f_mhz, env, margin, sp)
         IN BinBest(Tail(incs), IF eirp < best_eirp THEN eirp ELSE best_eirp,
                    f_mhz, env, margin, sp)

\* bins (low, high, psd) for f in range(int(lo), int(hi))
Bins(lo_khz, hi_khz, env, margin, incs, sp) ==
    LET start_mhz == lo_khz \div 1000
        end_mhz == hi_khz \div 1000
    IN [i \in 1..(end_mhz - start_mhz) |->
           <<start_mhz + i - 1, start_mhz + i,
             BinBest(incs, sp.max_eirp_dbm, start_mhz + i - 1, env, margin, sp)>>]

BinsRaise(lo_khz, hi_khz, env, incs) ==
    /\ hi_khz \div 1000 > lo_khz \div 1000
    /\ \E i \in 1..Len(incs) :
           select_pathloss_raises(incs[i].d_m, lo_khz, None, env)

\* adjacent bins merge when their PSD differs by less than tol and they touch
RECURSIVE MergeBins(_, _, _)
MergeBins(merged, bins, tol_udb) ==
    IF bins = <<>> THEN merged
    ELSE LET b == Head(bins)
             last == merged[Len(merged)]
         IN IF merged # <<>> /\ Abs(last[3] - b[3]) * 10000 < tol_udb /\ last[2] = b[1]
            THEN MergeBins([merged EXCEPT ![Len(merged)] = <<last[1], b[2], last[3]>>],
                           Tail(bins), tol_udb)
            ELSE MergeBins(Append(merged, b), Tail(bins), tol_udb)

FrequencyInfo(bins) ==
    [i \in 1..Len(bins) |->
        [lowMHz |-> bins[i][1], highMHz |-> bins[i][2], maxPsd |-> bins[i][3]]]

\* the loop over the ranges; acc = [results, evaluated]
RECURSIVE FrequencyLoop(_, _, _, _, _)
FrequencyLoop(ranges, acc, req, incs, sp) ==
    IF ranges = <<>>
    THEN Done([Response(RC_SUCCESS) EXCEPT !.availabilityExpireTime = Some(ExpirySeconds),
                                           !.availableFrequencyInfo = Some(acc.results)],
              "frequency", acc.evaluated, <<>>)
    ELSE LET range == ParseRange(Head(ranges))
             invalid == Done([Response(RC_INVALID_VALUE) EXCEPT
                                 !.invalidParams = Some({"inquiredFrequencyRange"})],
                             "frequency", acc.evaluated, <<>>)
         IN IF IsNone(range) THEN invalid
            ELSE IF Val(range)[2] <= Val(range)[1] THEN invalid
            ELSE IF BinsRaise(Val(range)[1], Val(range)[2], EnvironmentOf(req), incs)
            THEN Done(Raised("Exception"), "frequency", TRUE, <<>>)
            ELSE IF ToleranceRaises(req)
            THEN Done(Raised("Exception"), "frequency", TRUE, <<>>)
            ELSE LET bins == Bins(Val(range)[1], Val(range)[2], EnvironmentOf(req),
                                  MarginOf(req), incs, sp)
                     out == IF MergeBinsOf(req) THEN MergeBins(<<>>, bins, ToleranceOf(req))
                            ELSE bins
                 IN FrequencyLoop(Tail(ranges),
                                  [results |-> acc.results \o FrequencyInfo(out),
                                   evaluated |-> TRUE],
                                  req, incs, sp)

\* freq_req is the list of ranges (a single dict already wrapped)
FrequencyQuery(req, freq_req, incs, sp) ==
    IF HasKey(req.minDesiredPower)
    THEN Done([Response(RC_UNEXPECTED_PARAM) EXCEPT
                  !.unexpectedParams = Some(<<"minDesiredPower">>)], "frequency", FALSE, <<>>)
    ELSE IF MarginRaises(req) THEN Done(Raised("Exception"), "frequency", FALSE, <<>>)
    ELSE FrequencyLoop(freq_req, [results |-> <<>>, evaluated |-> FALSE], req, incs, sp)

-----------------------------------------------------------------------------
(* spectrum_inquiry.py *)

\* build_grant_table_with_incumbents over each band in turn, rows concatenated
RECURSIVE spectrum_inquiry(_, _, _, _, _, _, _)
spectrum_inquiry(sp, incs, band_ranges_mhz, bandwidths_mhz, environment, path_model, protection_margin_db) ==
    IF band_ranges_mhz = <<>> THEN [rows |-> <<>>, raised |-> FALSE, diverges |-> FALSE]
    ELSE LET band == Head(band_ranges_mhz)
             c == [builder |-> "with_incumbents", distance_m |-> None,
                   lower_mhz |-> band[1], upper_mhz |-> band[2],
                   bandwidths_mhz |-> bandwidths_mhz, inr_limit_db |-> -600,
                   environment |-> environment, path_model |-> path_model,
                   device_constraints |-> None, indoor |-> FALSE, penetration_db |-> None,
                   protection_margin_db |-> protection_margin_db]
             Extend(first, rest) == [rows |-> first.rows \o rest.rows, raised |-> rest.raised,
                                     diverges |-> rest.diverges]
             AfterFirst(first) ==
                 IF first.raised \/ first.diverges
                 THEN [rows |-> <<>>, raised |-> first.raised, diverges |-> first.diverges]
                 ELSE Extend(first, spectrum_inquiry(sp, incs, Tail(band_ranges_mhz),
                                                     bandwidths_mhz, environment, path_model,
                                                     protection_margin_db))
         IN AfterFirst(build_grant_table_with_incumbents(sp, incs, c))

-----------------------------------------------------------------------------
(* protocol.py: channel-based query *)

\* Annex A placeholder mapping, bandwidth in kHz; None for an unmapped class
nru_goc_to_bw_mhz(goc) ==
    CASE goc = 300 -> Some(20000)
      [] goc = 301 -> Some(40000)
      [] goc = 302 -> Some(60000)
      [] goc = 303 -> Some(80000)
      [] goc = 304 -> Some(100000)
      [] OTHER -> None

\* Fc (MHz) = 3000 + 15 * (CFI - 600000) / 1000, in kHz
nru_cfi_to_center_mhz(cfi) == 3000000 + 15 * (cfi - 600000)

\* first loop: globalOperatingClass, or goc when that is None and the key goc exists
ItemGoc(item) ==
    IF IsMissing(item.globalOperatingClass) /\ HasKey(item.goc) THEN item.goc
    ELSE item.globalOperatingClass

\* first loop: channelCfi, or cfi when that is None and the key cfi exists
ItemCfis(item) ==
    IF IsMissing(item.channelCfi) /\ HasKey(item.cfi) THEN item.cfi
    ELSE item.channelCfi

\* second loop: item.get("globalOperatingClass", item.get("goc"))
EntryGoc(item) ==
    IF HasKey(item.globalOperatingClass) THEN item.globalOperatingClass ELSE item.goc

\* second loop: item.get("channelCfi", item.get("cfi", []))
EntryCfis(item) ==
    IF HasKey(item.channelCfi) THEN item.channelCfi
    ELSE IF HasKey(item.cfi) THEN item.cfi
    ELSE ListV(<<>>)

\* int(cfi) of a list member: a bool is an int in Python
CfiValue(x) == IF x.t = "bool" THEN (IF x.b THEN 1 ELSE 0) ELSE x.v

IsIntList(cfis) ==
    IsList(cfis) /\ \A i \in 1..Len(cfis.items) : cfis.items[i].t \in {"int", "bool"}

\* bandwidth in kHz: operating class, item bandwidthMHz, request bandwidthMHz, 20 MHz
ResolveBandwidth(goc, item, req) ==
    LET mapped == IF goc.t = "int" THEN nru_goc_to_bw_mhz(goc.v) ELSE None
    IN IF ~IsNone(mapped) THEN Val(mapped)
       ELSE IF item.bandwidthMHz.t \in {"int", "float", "bool"} THEN float_of(item.bandwidthMHz)
       ELSE IF req.bandwidthMHz.t \in {"int", "float", "bool"} THEN float_of(req.bandwidthMHz)
       ELSE 20000

\* The validation loop over the items.  acc = [centers, invalid]; the result adds
\* unsupported = TRUE when an item without CFIs ended the loop with UNSUPPORTED_BASIS.
RECURSIVE ValidateItems(_, _, _)
ValidateItems(items, acc, req) ==
    IF items = <<>> THEN [centers |-> acc.centers, invalid |-> acc.invalid, unsupported |-> FALSE]
    ELSE LET item == Head(items)
         IN IF ~IsDict(item)
            THEN ValidateItems(Tail(items),
                               [acc EXCEPT !.invalid = @ \cup {"inquiredChannels[]"}], req)
            ELSE IF IsMissing(ItemCfis(item))
            THEN [centers |-> acc.centers, invalid |-> acc.invalid, unsupported |-> TRUE]
            ELSE IF ~IsIntList(ItemCfis(item))
            THEN ValidateItems(Tail(items), [acc EXCEPT !.invalid = @ \cup {"channelCfi"}], req)
            ELSE LET bw == ResolveBandwidth(ItemGoc(item), item, req)
                     cfis == ItemCfis(item).items
                 IN ValidateItems(
                        Tail(items),
                        [acc EXCEPT !.centers =
                            @ \o [i \in 1..Len(cfis) |->
                                     <<nru_cfi_to_center_mhz(CfiValue(cfis[i])), bw>>]],
                        req)

\* tuple(sorted({bw for _, bw in centers}))
RECURSIVE SortedSeq(_)
SortedSeq(S) ==
    IF S = {} THEN <<>>
    ELSE LET m == CHOOSE x \in S : \A y \in S : x <= y
         IN <<m>> \o SortedSeq(S \ {m})

BandOf(fc, bw) == <<fc - bw \div 2, fc + bw \div 2>>

\* maxEirp of one item: one spectrum_inquiry per CFI on the channel's own band;
\* [list, raised, diverges]
RECURSIVE MaxEirpList(_, _, _, _, _)
MaxEirpList(cfis, bw, req, incs, sp) ==
    IF cfis = <<>> THEN [list |-> <<>>, raised |-> FALSE, diverges |-> FALSE]
    ELSE LET fc == nru_cfi_to_center_mhz(CfiValue(Head(cfis)))
             Extend(eirp, rest) == [list |-> <<eirp>> \o rest.list, raised |-> rest.raised,
                                    diverges |-> rest.diverges]
             AfterSub(sub) ==
                 IF sub.raised \/ sub.diverges
                 THEN [list |-> <<>>, raised |-> sub.raised, diverges |-> sub.diverges]
                 ELSE Extend(IF sub.rows # <<>> THEN sub.rows[1].allowed_eirp_dbm ELSE 0,
                             MaxEirpList(Tail(cfis), bw, req, incs, sp))
         IN AfterSub(spectrum_inquiry(sp, incs, <<BandOf(fc, bw)>>, <<bw>>, EnvironmentOf(req),
                                      PathModelOf(req), MarginOf(req)))

\* the loop that builds availableChannelInfo; [available, raised, diverges]
RECURSIVE BuildAvailable(_, _, _, _)
BuildAvailable(items, req, incs, sp) ==
    IF items = <<>> THEN [available |-> <<>>, raised |-> FALSE, diverges |-> FALSE]
    ELSE LET item == Head(items)
             goc == EntryGoc(item)
             cfis == EntryCfis(item)
             bw == ResolveBandwidth(goc, item, req)
         IN IF ~IsList(cfis)   \* not iterable
            THEN [available |-> <<>>, raised |-> TRUE, diverges |-> FALSE]
            ELSE LET Entry(eirps) ==
                         [channelCfi |-> [i \in 1..Len(cfis.items) |-> CfiValue(cfis.items[i])],
                          maxEirp |-> eirps.list,
                          globalOperatingClass |-> IF goc.t = "int" THEN Some(goc.v) ELSE None,
                          bandwidthMHz |-> IF goc.t = "int" THEN None ELSE Some(bw)]
                     Extend(entry, rest) == [available |-> <<entry>> \o rest.available,
                                             raised |-> rest.raised,
                                             diverges |-> rest.diverges]
                     AfterEirps(eirps) ==
                         IF eirps.raised \/ eirps.diverges
                         THEN [available |-> <<>>, raised |-> eirps.raised,
                               diverges |-> eirps.diverges]
                         ELSE Extend(Entry(eirps), BuildAvailable(Tail(items), req, incs, sp))
                 IN AfterEirps(MaxEirpList(cfis.items, bw, req, incs, sp))

ChannelQuery(req, incs, sp) ==
    LET chan_req == req.inquiredChannels
    IN IF ~IsList(chan_req) \/ chan_req.items = <<>>
       THEN Done([Response(RC_MISSING_PARAM) EXCEPT !.missingParams = Some(<<"inquiredChannels">>)],
                 "channel", FALSE, <<>>)
       ELSE
       LET checked == ValidateItems(chan_req.items, [centers |-> <<>>, invalid |-> {}], req)
       IN IF checked.unsupported
          THEN Done(Response(RC_UNSUPPORTED_BASIS), "channel", FALSE, <<>>)
          ELSE IF checked.invalid # {}
          THEN Done([Response(RC_INVALID_VALUE) EXCEPT !.invalidParams = Some(checked.invalid)],
                    "channel", FALSE, <<>>)
          ELSE IF MarginRaises(req) THEN Done(Raised("Exception"), "channel", FALSE, <<>>)
          ELSE
          LET centers == checked.centers
              band_ranges == [i \in 1..Len(centers) |-> BandOf(centers[i][1], centers[i][2])]
              bws == SortedSeq({centers[i][2] : i \in 1..Len(centers)})
              Answer(first, built) ==
                  IF first.raised THEN Done(Raised("Exception"), "channel", TRUE, <<>>)
                  ELSE IF first.diverges THEN Done(NeverReturns, "channel", TRUE, <<>>)
                  ELSE IF built.raised THEN Done(Raised("Exception"), "channel", TRUE, <<>>)
                  ELSE IF built.diverges THEN Done(NeverReturns, "channel", TRUE, <<>>)
                  ELSE Done([Response(RC_SUCCESS) EXCEPT
                                !.availabilityExpireTime = Some(ExpirySeconds),
                                !.availableChannelInfo = Some(built.available)],
                            "channel", TRUE, first.rows)
          IN Answer(spectrum_inquiry(sp, incs, band_ranges, bws, EnvironmentOf(req),
                                     PathModelOf(req), MarginOf(req)),
                    BuildAvailable(chan_req.items, req, incs, sp))

-----------------------------------------------------------------------------
(* protocol.py: handle_available_spectrum_inquiry *)

\* the checks after the location, certification and mutual-exclusion checks
QuerySpecific(req, incs, sp) ==
    LET freq_req == IF IsDict(req.inquiredFrequencyRange)
                    THEN ListV(<<req.inquiredFrequencyRange>>)
                    ELSE req.inquiredFrequencyRange
    IN IF IsList(freq_req) THEN FrequencyQuery(req, freq_req.items, incs, sp)
       ELSE ChannelQuery(req, incs, sp)

certification_before_location(request_in, pol, sp, incs) ==
    LET req == ThreadOverrides(request_in, pol)
    IN IF ~IsNone(CertificationCheck(req, pol))
       THEN Done(Val(CertificationCheck(req, pol)), "certification", FALSE, <<>>)
       ELSE IF ~IsNone(LocationCheck(req))
       THEN Done(Val(LocationCheck(req)), "location", FALSE, <<>>)
       ELSE IF ~IsNone(MutualExclusionCheck(req))
       THEN Done(Val(MutualExclusionCheck(req)), "mutual_exclusion", FALSE, <<>>)
       ELSE QuerySpecific(req, incs, sp)

handle_available_spectrum_inquiry(request_in, pol, sp, incs) ==
    LET req == ThreadOverrides(request_in, pol)
    IN IF ~IsNone(LocationCheck(req))
       THEN Done(Val(LocationCheck(req)), "location", FALSE, <<>>)
       ELSE IF ~IsNone(CertificationCheck(req, pol))
       THEN Done(Val(CertificationCheck(req, pol)), "certification", FALSE, <<>>)
       ELSE IF ~IsNone(MutualExclusionCheck(req))
       THEN Done(Val(MutualExclusionCheck(req)), "mutual_exclusion", FALSE, <<>>)
       ELSE QuerySpecific(req, incs, sp)

-----------------------------------------------------------------------------
(* Inputs of the inquiry handler *)

MaxItems == 2
MaxRanges == 2

LocationDict(lat, lon, horiz) == [t |-> "dict", lat |-> lat, lon |-> lon, horiz |-> horiz]
DeviceDict(location) == [t |-> "dict", location |-> location]
CertificationDict(id, serialNumber) == [t |-> "dict", id |-> id, serialNumber |-> serialNumber]
RangeDict(lowMHz, highMHz, startMHz, endMHz) ==
    [t |-> "dict", lowMHz |-> lowMHz, highMHz |-> highMHz, startMHz |-> startMHz,
     endMHz |-> endMHz]
ChannelItem(globalOperatingClass, goc, channelCfi, cfi, bandwidthMHz) ==
    [t |-> "dict", globalOperatingClass |-> globalOperatingClass, goc |-> goc,
     channelCfi |-> channelCfi, cfi |-> cfi, bandwidthMHz |-> bandwidthMHz]

GoodLocation == LocationDict(IntV(41), IntV(29), {})

\* <<location, device>> of a request
LocationForms ==
    {<<GoodLocation, Absent>>,
     <<LocationDict(StrV("41.0"), FloatV(29000), {"ellipse"}), Absent>>,
     <<LocationDict(Absent, IntV(29), {}), Absent>>,
     <<LocationDict(Null, StrV("abc"), {}), Absent>>,
     <<LocationDict(IntV(41), IntV(29), {"ellipse", "radialPolygon"}), Absent>>,
     <<LocationDict(Absent, IntV(29), {"ellipse", "linearPolygon"}), Absent>>,
     <<Absent, Absent>>,
     <<Absent, StrV("ap-7")>>,
     <<Absent, DeviceDict(Absent)>>,
     <<Absent, DeviceDict(GoodLocation)>>,
     <<StrV("here"), DeviceDict(LocationDict(IntV(41), Absent, {}))>>,
     <<LocationDict(Absent, IntV(29), {}), DeviceDict(GoodLocation)>>}

CertificationForms ==
    {Absent,
     StrV("FCC123"),
     CertificationDict(StrV("FCC123"), Absent),
     CertificationDict(StrV("FCC123"), IntV(7)),
     CertificationDict(StrV("BAD1"), StrV("SN1")),
     CertificationDict(StrV("OTHER"), Absent),
     CertificationDict(Absent, StrV("SN1"))}

NoPolicy ==
    [certified_ids |-> None, disallowed_ids |-> None, disallowed_pairs |-> None,
     environment |-> None, path_model |-> None, protection_margin_db |-> None]

CertificationPolicies ==
    {[NoPolicy EXCEPT !.certified_ids = c, !.disallowed_ids = d, !.disallowed_pairs = p] :
        c \in {None, Some({"FCC123", "BAD1"})},
        d \in {None, Some({"BAD1"})},
        p \in {None, Some({<<"FCC123", "7">>})}}

OverridePolicy ==
    [NoPolicy EXCEPT !.environment = Some("suburban"), !.path_model = Some("fspl"),
                     !.protection_margin_db = Some(3000)]

\* ranges around the lower edge of an FS channel 5965..5985 MHz
RangeKinds ==
    {RangeDict(IntV(5964), IntV(5967), Absent, Absent),
     RangeDict(Absent, Absent, FloatV(5985500), IntV(5987)),
     RangeDict(IntV(5967), IntV(5964), Absent, Absent),
     RangeDict(StrV("5966"), StrV("upper"), Absent, Absent),
     RangeDict(IntV(5964), Absent, Absent, IntV(5967)),
     RangeDict(IntV(5960), IntV(5964), Absent, Absent),
     IntV(5964)}

GoodRange == RangeDict(IntV(5964), IntV(5967), Absent, Absent)

\* CFI 797000 is 5955 MHz and CFI 801000 is 6015 MHz, both on the 20 MHz raster;
\* CFI 798000 is 5970 MHz, off it
ItemKinds ==
    {ChannelItem(IntV(300), Absent, ListV(<<IntV(797000)>>), Absent, Absent),
     ChannelItem(Absent, Absent, ListV(<<IntV(797000), IntV(801000)>>), Absent, IntV(40)),
     ChannelItem(Absent, IntV(301), Absent, ListV(<<IntV(798000)>>), Absent),
     ChannelItem(Absent, Absent, ListV(<<>>), Absent, Absent),
     ChannelItem(IntV(300), Absent, StrV("797000"), Absent, Absent),
     ChannelItem(IntV(300), Absent, Absent, Absent, Absent),
     ChannelItem(IntV(300), Absent, Null, ListV(<<IntV(801000)>>), Absent),
     StrV("797000")}

GoodItem == ChannelItem(IntV(300), Absent, ListV(<<IntV(797000)>>), Absent, Absent)

BaseRequest ==
    [location |-> GoodLocation, device |-> Absent, certification |-> Absent,
     inquiredFrequencyRange |-> Absent, inquiredChannels |-> Absent,
     minDesiredPower |-> Absent, environment |-> Absent, pathModel |-> Absent,
     protectionMarginDb |-> Absent, mergeBins |-> Absent, mergeToleranceDb |-> Absent,
     bandwidthMHz |-> Absent]

Inquiry(req, pol) == [request |-> req, policy |-> pol]

\* the validation stages against each other
ValidationInquiries ==
    {Inquiry([BaseRequest EXCEPT !.location = l[1], !.device = l[2], !.certification = c,
                                 !.inquiredFrequencyRange = f, !.inquiredChannels = ch], pol) :
        l \in LocationForms, c \in CertificationForms,
        f \in {Absent, ListV(<<GoodRange>>), GoodRange},
        ch \in {Absent, ListV(<<GoodItem>>)},
        pol \in CertificationPolicies}

ChannelInquiries ==
    {Inquiry([BaseRequest EXCEPT !.inquiredChannels = ch, !.bandwidthMHz = bw], NoPolicy) :
        ch \in {ListV(items) : items \in SeqsUpTo(ItemKinds, MaxItems)} \cup {StrV("all")},
        bw \in {Absent, IntV(40)}}

FrequencyInquiries ==
    {Inquiry([BaseRequest EXCEPT !.inquiredFrequencyRange = f, !.minDesiredPower = p,
                                 !.mergeBins = m, !.mergeToleranceDb = tol], NoPolicy) :
        f \in {ListV(ranges) : ranges \in SeqsUpTo(RangeKinds, MaxRanges)},
        p \in {Absent, IntV(10)},
        m \in {Absent, BoolV(FALSE)},
        tol \in {Absent, IntV(3), StrV("tight")}}

OptionInquiries ==
    {Inquiry([BaseRequest EXCEPT !.inquiredFrequencyRange = q[1], !.inquiredChannels = q[2],
                                 !.environment = env, !.pathModel = pm,
                                 !.protectionMarginDb = margin], pol) :
        q \in {<<ListV(<<GoodRange>>), Absent>>, <<Absent, ListV(<<GoodItem>>)>>},
        env \in {Absent, Null, StrV("indoor"), StrV("mars")},
        pm \in {Absent, Null, StrV("fspl"), StrV("itm"), StrV("two_slope")},
        margin \in {Absent, IntV(3), StrV("3"), StrV("abc"), Null},
        pol \in {NoPolicy, OverridePolicy}}

\* items whose bandwidth comes from bandwidthMHz, of the item or of the request: zero,
\* negative and positive, on the 20 MHz raster (CFI 797000) and off it (CFI 798000); the
\* item with a mapped operating class ignores both
BandwidthItems ==
    {ChannelItem(Absent, Absent, ListV(<<IntV(cfi)>>), Absent, bw) :
        cfi \in {797000, 798000}, bw \in {Absent, IntV(0), IntV(-20), FloatV(-40000)}}
    \cup {ChannelItem(IntV(300), Absent, ListV(<<IntV(797000)>>), Absent, IntV(-20))}

BandwidthInquiries ==
    {Inquiry([BaseRequest EXCEPT !.inquiredChannels = ListV(<<item>>), !.bandwidthMHz = bw],
             NoPolicy) :
        item \in BandwidthItems, bw \in {Absent, IntV(0), IntV(-20), IntV(40)}}

Inquiries == ValidationInquiries \cup ChannelInquiries \cup FrequencyInquiries
             \cup OptionInquiries \cup BandwidthInquiries

\* non-empty lists of well-formed incumbent records: one receiver alone, or a far
\* receiver with one passive site close to the AP
ProtocolIncumbents ==
    (IncumbentLists(1) \ {<<>>})
    \cup {<<inc>> : inc \in {k \in IncumbentKinds(2) :
                                /\ k.freq_center_mhz = 5975000
                                /\ k.d_m = 30000
                                /\ Len(k.passive_sites) = 1
                                /\ k.passive_sites[1].d_m = Some(300)}}

-----------------------------------------------------------------------------
(* The inquiry handler as an operation *)

InitProtocol ==
    /\ spec \in SpecParameterSets
    /\ incumbents \in ProtocolIncumbents
    /\ call = NoCall
    /\ rows = <<>>
    /\ outcome = "none"
    /\ request = NoRequest
    /\ policy = NoRequest
    /\ response = NoRequest

HandleInquiry ==
    /\ outcome = "none"
    /\ \E inq \in Inquiries :
        LET Return(done) ==
                /\ request' = ThreadOverrides(inq.request, inq.policy)
                /\ policy' = inq.policy
                /\ response' = done.response
                /\ call' = [builder |-> "handle_available_spectrum_inquiry",
                            returned_at |-> done.returned_at, evaluated |-> done.evaluated]
                /\ rows' = done.rows
                /\ outcome' = IF done.response.kind \in {"raised", "diverges"}
                              THEN done.response.kind ELSE "returned"
        IN Return(handle_available_spectrum_inquiry(inq.request, inq.policy, spec, incumbents))
    /\ UNCHANGED <<spec, incumbents>>

NextProtocol == HandleInquiry

ProtocolSpec == InitProtocol /\ [][NextProtocol]_vars

-----------------------------------------------------------------------------
(* Properties of the grant-table builders *)

SetMin(S) == CHOOSE m \in S : \A o \in S : m <= o

RowIndexes == 1..Len(rows)

Returned(builder) == call.builder = builder /\ outcome = "returned"

\* the protection sites of the input list: each record's primary receiver and each of its
\* passive sites
ProtectionSites ==
    UNION {{PrimarySite(incumbents[i], spec)}
           \cup {PassiveSite(incumbents[i], j, spec) : j \in 1..Len(incumbents[i].passive_sites)} :
           i \in 1..Len(incumbents)}

PerSiteEirps(r) ==
    {SiteEval(s, r.center_mhz, r.bandwidth_mhz, call, spec).eirp : s \in ProtectionSites}

\* C1: every row returned by build_grant_table_with_incumbents has allowed_eirp_dbm equal
\* to the minimum of the regulatory cap and the per-site allowed EIRP over every protection
\* site (primary and passive) of every incumbent of the input list.
C1_MinOverSites ==
    Returned("with_incumbents") =>
        \A i \in RowIndexes :
            rows[i].allowed_eirp_dbm = SetMin(PerSiteEirps(rows[i]) \cup {spec.max_eirp_dbm})

\* a returned row limited by a passive site: a primary's value alone is higher
C1_Witness ==
    /\ Returned("with_incumbents")
    /\ \E i \in RowIndexes, k \in 1..Len(incumbents) :
        /\ incumbents[k].passive_sites # <<>>
        /\ rows[i].allowed_eirp_dbm < spec.max_eirp_dbm
        /\ rows[i].allowed_eirp_dbm
             = SiteEval(PassiveSite(incumbents[k], 1, spec), rows[i].center_mhz,
                        rows[i].bandwidth_mhz, call, spec).eirp
        /\ \A m \in 1..Len(incumbents) :
             rows[i].allowed_eirp_dbm
               < SiteEval(PrimarySite(incumbents[m], spec), rows[i].center_mhz,
                          rows[i].bandwidth_mhz, call, spec).eirp

\* C2: every grant row of either builder, in co-channel and in adjacent mode, has
\* allowed_eirp_dbm at most the regulatory maximum EIRP of the parameter set.
C2_EirpWithinCap ==
    outcome = "returned" =>
        \A i \in RowIndexes : rows[i].allowed_eirp_dbm <= spec.max_eirp_dbm

EffectiveConstraints ==
    IF IsNone(call.device_constraints) THEN DefaultDeviceConstraints
    ELSE Val(call.device_constraints)

\* C3: in every grant row of both builders decision is "grant" exactly when allowed EIRP >=
\* the device EIRP minimum and allowed PSD >= the device PSD minimum, else "deny"; the
\* minima are 0 dBm and -10 dBm/MHz when no device constraints are passed.
C3_DecisionIffMinima ==
    outcome = "returned" =>
        \A i \in RowIndexes :
            /\ rows[i].decision \in {"grant", "deny"}
            /\ rows[i].decision = "grant"
                 <=> /\ rows[i].allowed_eirp_dbm >= EffectiveConstraints.min_eirp_dbm
                     /\ rows[i].allowed_psd_dbm_per_mhz >= EffectiveConstraints.min_psd_dbm_per_mhz

-----------------------------------------------------------------------------
(* Properties of the inquiry handler *)

Handled == call.builder = "handle_available_spectrum_inquiry"
Answered == Handled /\ response.kind = "response"

\* the location object of the request: the top-level one, else the device's
LocationRead ==
    IF request.location.t = "dict" THEN request.location
    ELSE IF request.device.t = "dict" THEN request.device.location
    ELSE Absent

LacksLat == LocationRead.t # "dict" \/ ~is_number(LocationRead.lat)
LacksLon == LocationRead.t # "dict" \/ ~is_number(LocationRead.lon)
ManyHorizontal == LocationRead.t = "dict" /\ Cardinality(LocationRead.horiz) > 1
FailsLocation == LacksLat \/ LacksLon \/ ManyHorizontal

\* the certification id of the request, None when it carries none
IdOf ==
    IF request.certification.t = "dict" /\ request.certification.id.t = "str"
    THEN Some(request.certification.id.s) ELSE None

SerialOf ==
    IF request.certification.t = "dict" /\ HasKey(request.certification.serialNumber)
    THEN Some(StrOf(request.certification.serialNumber)) ELSE None

OutsideAllowlist ==
    /\ ~IsNone(policy.certified_ids)
    /\ ~IsNone(IdOf)
    /\ Val(IdOf) \notin Val(policy.certified_ids)

Disallowed ==
    \/ /\ ~IsNone(policy.disallowed_ids)
       /\ ~IsNone(IdOf)
       /\ Val(IdOf) \in Val(policy.disallowed_ids)
    \/ /\ ~IsNone(policy.disallowed_pairs)
       /\ ~IsNone(IdOf)
       /\ ~IsNone(SerialOf)
       /\ <<Val(IdOf), Val(SerialOf)>> \in Val(policy.disallowed_pairs)

FailsCertification == OutsideAllowlist \/ Disallowed

BothQueryLists ==
    request.inquiredFrequencyRange.t = "list" /\ request.inquiredChannels.t = "list"

NoAvailability ==
    /\ ~call.evaluated
    /\ response.kind = "response"
       => IsNone(response.availableFrequencyInfo) /\ IsNone(response.availableChannelInfo)

\* C5: the handler checks location, then certification, then mutual exclusion of the two
\* query kinds, then the query-specific conditions, and answers with the code of the first
\* check that fails: a request failing an earlier check never gets a later check's code.
C5_CheckOrder ==
    Handled =>
        /\ FailsLocation =>
               /\ call.returned_at = "location"
               /\ Answered
               /\ response.responseCode \in {RC_MISSING_PARAM, RC_UNEXPECTED_PARAM}
               /\ response.responseCode = RC_UNEXPECTED_PARAM
                    => Val(response.unexpectedParams)
                         \notin {<<"inquiredFrequencyRange", "inquiredChannels">>,
                                 <<"minDesiredPower">>}
               /\ response.responseCode = RC_MISSING_PARAM
                    => Val(response.missingParams) # <<"inquiredChannels">>
        /\ (~FailsLocation /\ FailsCertification) =>
               /\ call.returned_at = "certification"
               /\ Answered
               /\ response.responseCode = IF OutsideAllowlist THEN RC_INVALID_VALUE
                                          ELSE RC_DEVICE_DISALLOWED
        /\ (~FailsLocation /\ ~FailsCertification /\ BothQueryLists) =>
               /\ call.returned_at = "mutual_exclusion"
               /\ Answered
               /\ response.responseCode = RC_UNEXPECTED_PARAM
               /\ response.unexpectedParams
                    = Some(<<"inquiredFrequencyRange", "inquiredChannels">>)
        /\ (~FailsLocation /\ ~FailsCertification /\ ~BothQueryLists) =>
               call.returned_at \in {"frequency", "channel"}

\* a request with a missing latitude, a disallowed device and both query kinds is answered
\* MISSING_PARAM
C5_Witness ==
    /\ Handled
    /\ LacksLat
    /\ ~ManyHorizontal
    /\ Disallowed
    /\ BothQueryLists
    /\ response.responseCode = RC_MISSING_PARAM

\* C6: a request that passes the location and certification checks and carries both
\* inquiredFrequencyRange (as a list or as a single range object) and inquiredChannels
\* (as a list) is answered UNEXPECTED_PARAM (106), and no availability is computed.
C6_BothKindsUnexpected ==
    (/\ Handled
     /\ ~FailsLocation
     /\ ~FailsCertification
     /\ request.inquiredFrequencyRange.t \in {"list", "dict"}
     /\ request.inquiredChannels.t = "list")
    => /\ Answered
       /\ response.responseCode = RC_UNEXPECTED_PARAM
       /\ NoAvailability

\* C7: with a certified_ids allowlist configured, a request whose certification id is not
\* in the allowlist, or that carries no certification id, is answered INVALID_VALUE; a
\* request whose id is in disallowed_ids or whose (id, serialNumber) is a disallowed pair is
\* answered DEVICE_DISALLOWED; none of these reaches channel or frequency evaluation.
C7_AllowlistEnforced ==
    (Handled /\ ~FailsLocation /\ ~IsNone(policy.certified_ids)) =>
        /\ (IsNone(IdOf) \/ OutsideAllowlist) =>
               /\ Answered
               /\ response.responseCode = RC_INVALID_VALUE
               /\ NoAvailability
        /\ (~IsNone(IdOf) /\ ~OutsideAllowlist /\ Disallowed) =>
               /\ Answered
               /\ response.responseCode = RC_DEVICE_DISALLOWED
               /\ NoAvailability

\* the names of location.lat and location.lon that the location object lacks, or
\* "location" when there is no location object
MissingNames ==
    IF LocationRead.t # "dict" THEN <<"location">>
    ELSE (IF LacksLat THEN <<"location.lat">> ELSE <<>>)
         \o (IF LacksLon THEN <<"location.lon">> ELSE <<>>)

LocationNames == {"location", "location.lat", "location.lon"}

NotMissingLocation ==
    ~(/\ Answered
      /\ response.responseCode = RC_MISSING_PARAM
      /\ \E i \in 1..Len(Val(response.missingParams)) :
             Val(response.missingParams)[i] \in LocationNames)

\* C8 as stated: a request whose location lacks a numeric lat and/or lon is answered
\* MISSING_PARAM (102) with missingParams exactly the missing names, or "location" when
\* there is no location object; a request with numeric lat and lon is never answered
\* MISSING_PARAM for its location.
C8_MissingLocation ==
    Handled =>
        /\ (LacksLat \/ LacksLon) =>
               /\ Answered
               /\ response.responseCode = RC_MISSING_PARAM
               /\ response.missingParams = Some(MissingNames)
        /\ (~LacksLat /\ ~LacksLon) => NotMissingLocation

\* C8 amended: the same, except that a location object carrying two or more of ellipse,
\* linearPolygon and radialPolygon is answered UNEXPECTED_PARAM (106) naming those fields,
\* whether or not lat and lon are there.
C8_MissingLocationUnlessManyHorizontal ==
    Handled =>
        /\ ((LacksLat \/ LacksLon) /\ ~ManyHorizontal) =>
               /\ Answered
               /\ response.responseCode = RC_MISSING_PARAM
               /\ response.missingParams = Some(MissingNames)
        /\ ManyHorizontal =>
               /\ Answered
               /\ response.responseCode = RC_UNEXPECTED_PARAM
               /\ IsNone(response.missingParams)
               /\ \A i \in 1..Len(Val(response.unexpectedParams)) :
                      Val(response.unexpectedParams)[i] \in LocationRead.horiz
        /\ (~LacksLat /\ ~LacksLon) => NotMissingLocation

\* a request without a top-level location object whose device.location lacks lon
C8_Witness ==
    /\ Handled
    /\ request.location.t # "dict"
    /\ request.device.t = "dict"
    /\ LocationRead.t = "dict"
    /\ ~LacksLat
    /\ LacksLon
    /\ response.missingParams = Some(<<"location.lon">>)

\* C9: for every request, whatever fields are absent, present or ill-typed, and a
\* well-formed non-empty incumbent list, the handler returns a response whose responseCode
\* is one of 0, 101, 102, 103, 106, 301; it never raises.
C9_AlwaysResponds ==
    Handled =>
        /\ response.kind = "response"
        /\ response.responseCode \in {RC_SUCCESS, RC_DEVICE_DISALLOWED, RC_MISSING_PARAM,
                                      RC_INVALID_VALUE, RC_UNEXPECTED_PARAM,
                                      RC_UNSUPPORTED_BASIS}

ChannelItems == request.inquiredChannels.items

\* the CFI list of an item: channelCfi, else cfi
CfiListOf(item) ==
    IF item.channelCfi.t = "list" THEN item.channelCfi
    ELSE IF item.channelCfi.t \in {"absent", "null"} THEN item.cfi
    ELSE item.channelCfi

ItemValid(item) ==
    /\ item.t = "dict"
    /\ CfiListOf(item).t = "list"
    /\ \A i \in 1..Len(CfiListOf(item).items) : CfiListOf(item).items[i].t = "int"

\* C10: a channel-based response is all-or-nothing: when any inquiredChannels item fails
\* validation there is no availableChannelInfo; otherwise availableChannelInfo has one
\* entry per item in input order, whose channelCfi is the item's CFI list in input order
\* and whose maxEirp has the same length.
C10_AllOrNothing ==
    (/\ Handled
     /\ call.returned_at = "channel"
     /\ request.inquiredChannels.t = "list"
     /\ ChannelItems # <<>>)
    => IF \E i \in 1..Len(ChannelItems) : ~ItemValid(ChannelItems[i])
       THEN response.kind = "response" => IsNone(response.availableChannelInfo)
       ELSE /\ response.kind = "response"
            /\ ~IsNone(response.availableChannelInfo)
            /\ LET info == Val(response.availableChannelInfo)
               IN /\ Len(info) = Len(ChannelItems)
                  /\ \A i \in 1..Len(info) :
                         /\ info[i].channelCfi
                              = [k \in 1..Len(CfiListOf(ChannelItems[i]).items) |->
                                    CfiListOf(ChannelItems[i]).items[k].v]
                         /\ Len(info[i].maxEirp) = Len(info[i].channelCfi)

\* the arguments spectrum_inquiry hands to the builder for the handled request
RequestCall ==
    [builder |-> "with_incumbents", distance_m |-> None, inr_limit_db |-> -600,
     environment |-> EnvironmentOf(request), path_model |-> PathModelOf(request),
     device_constraints |-> None, indoor |-> FALSE, penetration_db |-> None,
     protection_margin_db |-> MarginOf(request)]

\* the grant-table value of one channel: the regulatory cap and the per-site allowed EIRP
\* of every protection site, the least of them
GrantEirpAt(center_khz, bw_khz) ==
    SetMin({SiteEval(s, center_khz, bw_khz, RequestCall, spec).eirp : s \in ProtectionSites}
           \cup {spec.max_eirp_dbm})

\* the operating class of an item: globalOperatingClass, else goc
GocOf(item) ==
    IF item.globalOperatingClass.t \in {"absent", "null"} THEN item.goc
    ELSE item.globalOperatingClass

\* bandwidth (kHz) by the stated precedence: operating-class mapping, item bandwidthMHz,
\* request bandwidthMHz, 20 MHz
StatedBandwidth(item) ==
    IF GocOf(item).t = "int" /\ GocOf(item).v \in 300..304
    THEN 20000 * (GocOf(item).v - 299)
    ELSE IF item.bandwidthMHz.t \in {"int", "float"} THEN float_of(item.bandwidthMHz)
    ELSE IF request.bandwidthMHz.t \in {"int", "float"} THEN float_of(request.bandwidthMHz)
    ELSE 20000

ChannelSuccess ==
    /\ Answered
    /\ call.returned_at = "channel"
    /\ response.responseCode = RC_SUCCESS

\* C11: for every CFI of a valid channel-based request the reported maxEirp equals the
\* grant-table allowed EIRP (the capped minimum over all protection sites) of the channel
\* centered at 3000 + 15*(CFI - 600000)/1000 MHz with the bandwidth resolved by operating
\* class, then item bandwidthMHz, then request bandwidthMHz, then 20 MHz.
C11_MaxEirpIsGrantValue ==
    ChannelSuccess =>
        LET info == Val(response.availableChannelInfo)
        IN \A i \in 1..Len(info) :
               \A k \in 1..Len(info[i].maxEirp) :
                   info[i].maxEirp[k]
                     = GrantEirpAt(3000000 + 15 * (info[i].channelCfi[k] - 600000),
                                   StatedBandwidth(ChannelItems[i]))

FrequencySuccess ==
    /\ Answered
    /\ call.returned_at = "frequency"
    /\ response.responseCode = RC_SUCCESS

FrequencyEntries == Val(response.availableFrequencyInfo)

\* C12: in every successful frequency-based response, for any number and order of declared
\* ranges, the availableFrequencyInfo entries are in increasing frequency: each entry's
\* lowMHz is at least the previous entry's highMHz.
C12_IncreasingFrequency ==
    FrequencySuccess =>
        \A i \in 2..Len(FrequencyEntries) :
            FrequencyEntries[i].lowMHz >= FrequencyEntries[i - 1].highMHz

\* the declared ranges of the handled request as <<lo, hi>> in kHz, in declaration order
DeclaredRanges ==
    LET declared == IF request.inquiredFrequencyRange.t = "dict"
                    THEN <<request.inquiredFrequencyRange>>
                    ELSE request.inquiredFrequencyRange.items
    IN [i \in 1..Len(declared) |-> Val(ParseRange(declared[i]))]

\* the 1-MHz steps from lo on that stay within [lo, hi], as <<low, high>> in kHz
TilesOf(range) ==
    [i \in 1..((range[2] - range[1]) \div 1000) |->
        <<range[1] + (i - 1) * 1000, range[1] + i * 1000>>]

RECURSIVE TilesOfAll(_)
TilesOfAll(ranges) ==
    IF ranges = <<>> THEN <<>> ELSE TilesOf(Head(ranges)) \o TilesOfAll(Tail(ranges))

UnmergedSuccess == FrequencySuccess /\ ~MergeBinsOf(request)

\* C13: with mergeBins=false the entries emitted for each declared range [lo, hi] are
\* exactly the consecutive 1-MHz bins that tile it: the first starts at lo, the last ends
\* at hi, each is 1 MHz wide and none extends outside [lo, hi].
C13_BinsTileRange ==
    UnmergedSuccess =>
        /\ \A i \in 1..Len(DeclaredRanges) :
               (DeclaredRanges[i][2] - DeclaredRanges[i][1]) % 1000 = 0
        /\ [i \in 1..Len(FrequencyEntries) |->
               <<FrequencyEntries[i].lowMHz * 1000, FrequencyEntries[i].highMHz * 1000>>]
             = TilesOfAll(DeclaredRanges)

\* the 1-MHz bins the handler computed for the declared ranges, in order, before merging
RECURSIVE BinsOfAll(_)
BinsOfAll(ranges) ==
    IF ranges = <<>> THEN <<>>
    ELSE Bins(Head(ranges)[1], Head(ranges)[2], EnvironmentOf(request), MarginOf(request),
              incumbents, spec)
         \o BinsOfAll(Tail(ranges))

ComputedBins == BinsOfAll(DeclaredRanges)

\* number of 1-MHz bins under the first k entries
RECURSIVE BinsUnder(_)
BinsUnder(k) ==
    IF k = 0 THEN 0
    ELSE BinsUnder(k - 1) + (FrequencyEntries[k].highMHz - FrequencyEntries[k].lowMHz)

\* the entry that reports bin j
EntryOfBin(j) ==
    CHOOSE k \in 1..Len(FrequencyEntries) : BinsUnder(k - 1) < j /\ j <= BinsUnder(k)

WithinTolerance(a, b) == Abs(a[3] - b[3]) * 10000 < ToleranceOf(request)

MergedSuccess == FrequencySuccess /\ MergeBinsOf(request)

\* C14: with mergeBins=true any two adjacent 1-MHz bins whose ranges touch and whose
\* computed values differ by less than mergeToleranceDb are covered by the same
\* availableFrequencyInfo entry; bins whose values differ by at least the tolerance, or
\* whose ranges do not touch, are in different entries.
C14_MergeByTolerance ==
    MergedSuccess =>
        \A j \in 1..(Len(ComputedBins) - 1) :
            (EntryOfBin(j) = EntryOfBin(j + 1))
              <=> (/\ ComputedBins[j][2] = ComputedBins[j + 1][1]
                   /\ WithinTolerance(ComputedBins[j], ComputedBins[j + 1]))

\* C15: for every 1-MHz bin of a frequency-based request the computed value equals what
\* the per-site minimum procedure of build_grant_table_with_incumbents yields for a 1-MHz
\* channel centered at f + 0.5 with the same incumbents (passive sites included),
\* environment, pathModel and protection margin.  The value of a bin shows in the response
\* as the maxPsd of the entry that starts at it.
C15_BinsFollowGrantTable ==
    FrequencySuccess =>
        \A k \in 1..Len(FrequencyEntries) :
            FrequencyEntries[k].maxPsd
              = GrantEirpAt(FrequencyEntries[k].lowMHz * 1000 + 500, 1000)

-----------------------------------------------------------------------------
(* Properties of the per-site link budget *)

\* the per-site value with the effective receive gain in the link budget:
\* I_thresh + PL - G_eff + L_rx + L_pol under the cap, plus the ACIR off the channel
EirpWithEffectiveGain(site, r) ==
    LET e == SiteEval(site, r.center_mhz, r.bandwidth_mhz, call, spec)
        l_pol == IF site.pol \in {"H", "V"} THEN 300 ELSE 0
        co == Min2(i_threshold_dbm(e.n_dbm, call.inr_limit_db - call.protection_margin_db)
                   + e.pl - e.g_eff + spec.rx_losses_db + l_pol,
                   spec.max_eirp_dbm)
    IN IF e.mode = "co" THEN co ELSE co + Val(e.acir)

\* C16: when build_grant_table_with_incumbents is called with AP coordinates, every row's
\* allowed EIRP is the least, over the protection sites and the cap, of the per-site value
\* computed with the effective receive gain G_eff (the boresight gain less the off-axis
\* attenuation towards the AP).
C16_EirpUsesEffectiveGain ==
    (Returned("with_incumbents") /\ IsNone(call.distance_m)) =>
        \A i \in RowIndexes :
            rows[i].allowed_eirp_dbm
              = SetMin({EirpWithEffectiveGain(s, rows[i]) : s \in ProtectionSites}
                       \cup {spec.max_eirp_dbm})

\* the receiver noise of one incumbent by the stated precedence: emission designator,
\* explicit receiver noise bandwidth (no record of the model carries one), recorded channel
\* bandwidth, default of the parameter set
NoiseByPrecedence(inc) ==
    noise_power_dbm(determine_fs_noise_bw_hz(spec, inc.emission_designator, None,
                                             Some(inc.bandwidth_mhz)),
                    spec.noise_figure_db)

\* C17: in a table of build_grant_table_with_incumbents the noise power of a row limited by
\* an incumbent's receiver is the noise of the bandwidth chosen for that incumbent by the
\* precedence emission designator, explicit noise bandwidth, recorded bandwidth, default.
C17_NoiseFromChosenBandwidth ==
    Returned("with_incumbents") =>
        \A i \in RowIndexes, k \in 1..Len(incumbents) :
            rows[i].limiting_incumbent = Some(GetOr(incumbents[k].link_id, "unknown"))
                => rows[i].noise_dbm = NoiseByPrecedence(incumbents[k])

-----------------------------------------------------------------------------
(* The library functions as operations: one call with arguments drawn from small sets *)

DesignatorInputs ==
    {None, Some(""), Some("XYZ"), Some("180KF3E"), Some("0M00F7W"), Some("25M0F7W"),
     Some("200K0F3E"), Some("5M50D7W"), Some("40m0f7w"), Some("1250K0F7W")}
ExplicitBandwidthInputs == {None, Some(0), Some(-10000), Some(10000), Some(15000)}
RecordedBandwidthInputs == {None, Some(0), Some(-5000), Some(40000)}

\* band edges (kHz) below, on and between the grid centers of 5955 MHz + k * bandwidth
BandEdges ==
    {5905000, 5925000, 5935000, 5945000, 5950000, 5955000, 5965000, 5972500, 5975000,
     5985000, 5995000, 6005000, 6025000}
GridBandwidths == {10000, 20000, 40000}

\* non-empty masks {offset MHz: attenuation}: the tables of the parameter set, a single
\* point, and shallow masks of 2 dB and 0 dB
MaskInputs ==
    {(20 :> 3000) @@ (40 :> 3500), (20 :> 3000), (20 :> 200), (10 :> 0) @@ (40 :> 3500)}
MaskOffsets == {10000, 20000, 30000}
PathLossInputs == {9000, 12000, 15000}

\* lists of (offset kHz, attenuation) points: empty, sorted, unsorted, and with two points
\* at one offset in either order
MaskPointLists ==
    {<<>>,
     <<<<0, 0>>, <<20000, 3000>>, <<40000, 4000>>>>,
     <<<<40000, 3500>>, <<20000, 3000>>>>,
     <<<<20000, 1000>>, <<20000, 3000>>>>,
     <<<<20000, 3000>>, <<20000, 1000>>>>,
     <<<<20000, 3000>>, <<40000, 3500>>, <<20000, 2000>>>>}
InterpolationOffsets == {-5000, 0, 10000, 20000, 25000, 30000, 40000, 100000}

Computed(function) == call.builder = function /\ outcome = "computed"

InitLibrary ==
    /\ spec \in SpecParameterSets
    /\ incumbents = <<>>
    /\ call = NoCall
    /\ rows = <<>>
    /\ outcome = "none"
    /\ request = NoRequest
    /\ policy = NoRequest
    /\ response = NoRequest

CallDetermineFsNoiseBw ==
    /\ outcome = "none"
    /\ \E emission_designator \in DesignatorInputs,
          explicit_rx_bw_hz \in ExplicitBandwidthInputs,
          ul_bandwidth_hz \in RecordedBandwidthInputs :
        /\ call' = [builder |-> "determine_fs_noise_bw_hz",
                    emission_designator |-> emission_designator,
                    explicit_rx_bw_hz |-> explicit_rx_bw_hz,
                    ul_bandwidth_hz |-> ul_bandwidth_hz]
        /\ response' = [kind |-> "value",
                        value |-> determine_fs_noise_bw_hz(spec, emission_designator,
                                                           explicit_rx_bw_hz, ul_bandwidth_hz)]
    /\ outcome' = "computed"
    /\ UNCHANGED <<spec, incumbents, rows, request, policy>>

CallEnumerateCenters ==
    /\ outcome = "none"
    /\ \E lower_mhz \in BandEdges, upper_mhz \in BandEdges, bandwidth_mhz \in GridBandwidths :
        /\ lower_mhz <= upper_mhz
        /\ call' = [builder |-> "enumerate_centers_mhz", lower_mhz |-> lower_mhz,
                    upper_mhz |-> upper_mhz, bandwidth_mhz |-> bandwidth_mhz]
        /\ response' = [kind |-> "value",
                        value |-> enumerate_centers_mhz(lower_mhz, upper_mhz, bandwidth_mhz)]
    /\ outcome' = "computed"
    /\ UNCHANGED <<spec, incumbents, rows, request, policy>>

\* allowed_eirp_dbm_for_path for one path, once with the ACIR of the masks at the offset
\* and once co-channel (acir_db_value = None), everything else the same
CallAllowedEirpForPath ==
    /\ outcome = "none"
    /\ \E tx_mask \in MaskInputs, rx_mask \in MaskInputs, offset_mhz \in MaskOffsets,
          path_loss_db \in PathLossInputs, eirp_regulatory_max_dbm \in {None, Some(3600)} :
        LET acir_db_value == acir_db_from_masks(offset_mhz, DictPoints(tx_mask),
                                                DictPoints(rx_mask))
        IN /\ call' = [builder |-> "allowed_eirp_dbm_for_path", tx_mask |-> tx_mask,
                       rx_mask |-> rx_mask, offset_mhz |-> offset_mhz,
                       path_loss_db |-> path_loss_db,
                       eirp_regulatory_max_dbm |-> eirp_regulatory_max_dbm]
           /\ response' =
                [kind |-> "value",
                 acir_db_value |-> acir_db_value,
                 adjacent |-> allowed_eirp_dbm_for_path(
                                  -9400, -600, path_loss_db, spec.antenna_gain_dbi,
                                  spec.rx_losses_db, 0, Some(acir_db_value),
                                  eirp_regulatory_max_dbm),
                 co |-> allowed_eirp_dbm_for_path(
                            -9400, -600, path_loss_db, spec.antenna_gain_dbi,
                            spec.rx_losses_db, 0, None, eirp_regulatory_max_dbm)]
    /\ outcome' = "computed"
    /\ UNCHANGED <<spec, incumbents, rows, request, policy>>

CallInterpolateMask ==
    /\ outcome = "none"
    /\ \E offset_mhz \in InterpolationOffsets, mask_points \in MaskPointLists :
        /\ call' = [builder |-> "interpolate_mask_db", offset_mhz |-> offset_mhz,
                    mask_points |-> mask_points]
        /\ response' = IF interpolate_mask_raises(mask_points)
                       THEN [kind |-> "raised", error |-> "ValueError"]
                       ELSE [kind |-> "value",
                             value |-> interpolate_mask_db(offset_mhz, mask_points)]
    /\ outcome' = "computed"
    /\ UNCHANGED <<spec, incumbents, rows, request, policy>>

NextLibrary ==
    \/ CallDetermineFsNoiseBw
    \/ CallEnumerateCenters
    \/ CallAllowedEirpForPath
    \/ CallInterpolateMask

LibrarySpec == InitLibrary /\ [][NextLibrary]_vars

\* the sources in precedence order, each None when it is not supplied or cannot be parsed
SourcesOf(c) ==
    <<IF IsNone(c.emission_designator) \/ c.emission_designator = Some("") THEN None
      ELSE parse_emission_designator_bw_hz(Val(c.emission_designator)),
      c.explicit_rx_bw_hz,
      c.ul_bandwidth_hz>>

Usable(source) == ~IsNone(source) /\ Val(source) > 0

GridIndexes == (-10)..10

\* the grid centers whose whole channel lies inside [lower, upper]
FittingCenters(lower_khz, upper_khz, bandwidth_khz) ==
    {c \in {5955000 + k * bandwidth_khz : k \in GridIndexes} :
        /\ 2 * c - bandwidth_khz >= 2 * lower_khz
        /\ 2 * c + bandwidth_khz <= 2 * upper_khz}

C19_AdjacentAtLeastCoChannel ==
    Computed("allowed_eirp_dbm_for_path") => response.adjacent >= response.co

-----------------------------------------------------------------------------
(* Properties of the rows of the grant table *)

\* the 6 GHz range starts at 5925 MHz
BandStartsInRange == call.lower_mhz >= 5925000

\* C21: every row of a grant table of either builder, built over a band inside the 6 GHz
\* range that starts at 5925 MHz, has channel_number = round(1 + (center - 5955) / 5) of
\* its center, and that number is at least 1.
C21_ChannelNumberAtLeastOne ==
    (outcome = "returned" /\ BandStartsInRange) =>
        \A i \in RowIndexes :
            /\ rows[i].channel_number = channel_number_from_center_mhz(rows[i].center_mhz)
            /\ rows[i].channel_number >= 1

-----------------------------------------------------------------------------
(* Properties of the mask interpolation *)

\* the supplied points after the latest of each offset has replaced the earlier ones
LatestPoints(points) ==
    {points[i] : i \in {j \in 1..Len(points) :
                          \A k \in (j + 1)..Len(points) : points[k][1] # points[j][1]}}

\* first point at or below the smallest offset, last point at or above the largest, linear
\* between the two surrounding points otherwise
InterpolationOf(x, pts) ==
    LET below == {p \in pts : p[1] <= x}
        above == {p \in pts : p[1] >= x}
    IN IF below = {} THEN (CHOOSE p \in pts : \A q \in pts : p[1] <= q[1])[2]
       ELSE IF above = {} THEN (CHOOSE p \in pts : \A q \in pts : p[1] >= q[1])[2]
       ELSE LET p0 == CHOOSE p \in below : \A q \in below : p[1] >= q[1]
                p1 == CHOOSE p \in above : \A q \in above : p[1] <= q[1]
            IN IF p0[1] = p1[1] THEN p0[2]
               ELSE p0[2] + ((x - p0[1]) * (p1[2] - p0[2])) \div (p1[1] - p0[1])

\* C22: interpolate_mask_db rejects an empty point list with an error; otherwise it returns
\* the first point's attenuation at or below the smallest offset, the last point's at or
\* above the largest, and the linear interpolation in between, where of several supplied
\* points with one offset the latest in the supplied list counts.
C22_InterpolationLatestWins ==
    Computed("interpolate_mask_db") =>
        IF call.mask_points = <<>> THEN response.kind = "raised"
        ELSE /\ response.kind = "value"
             /\ response.value = InterpolationOf(call.offset_mhz, LatestPoints(call.mask_points))

-----------------------------------------------------------------------------
(* Properties of the aggregate evaluators *)

AggregateEvaluated == Computed("aggregate.evaluate_aggregate_inr_for_channel")
MultiApEvaluated == Computed("multi_ap.evaluate_aggregate_inr_for_channel")

\* a <= b for INR values, None being -inf
InrLeq(a, b) == IsNone(a) \/ (~IsNone(b) /\ Val(a) <= Val(b))

\* the entries of details whose inr_db is the greatest
WorstEntries(details) ==
    {k \in 1..Len(details) : \A j \in 1..Len(details) : InrLeq(details[j].inr_db, details[k].inr_db)}

\* C23: aggregate.evaluate_aggregate_inr_for_channel returns one details entry per incumbent
\* in input order; for a non-empty incumbent list, also when every INR is -inf,
\* worst_inr_db is the greatest inr_db of details and limiting_incumbent is the id of an
\* incumbent that attains it.
C23_WorstIsMaximumOfDetails ==
    (AggregateEvaluated /\ incumbents # <<>>) =>
        /\ Len(response.details) = Len(incumbents)
        /\ \A k \in 1..Len(incumbents) :
             response.details[k].incumbent = GetOr(incumbents[k].link_id, "unknown")
        /\ \E k \in WorstEntries(response.details) :
             /\ response.details[k].inr_db = Some(response.worst_inr_db)
             /\ response.limiting_incumbent = Some(response.details[k].incumbent)

\* the gain of the receiver towards the APs, g_max being the evaluator's default gain
GainTowardsAp(inc, g_max_default) ==
    effective_gain_dbi(GetOr(inc.rx_antenna_gain_dbi, g_max_default),
                       off_axis_azimuth_deg(GetOr(inc.rx_antenna_azimuth_deg, 0),
                                            (BearingToSite + 180) % 360))

\* the ACIR an AP's contribution is reduced by: none when the channel overlaps the FS
\* channel, the ACIR at |center - fs_center| otherwise
AcirReduction(inc) ==
    IF Overlap(call.center_mhz, call.bandwidth_mhz, inc.freq_center_mhz, inc.bandwidth_mhz) > 0
    THEN 0
    ELSE SpecAcirAt(Abs(call.center_mhz - inc.freq_center_mhz), spec)

\* co-channel interference of AP a at the receiver, by the budget of each evaluator
CoChannelAggregate(inc, a) ==
    call.aps[a].eirp_dbm
    - select_pathloss_db(inc.d_m, call.center_mhz, None, call.environment, FALSE, None)
    + GainTowardsAp(inc, spec.antenna_gain_dbi) - spec.rx_losses_db
    + spec.polarization_mismatch_db

CoChannelMultiAp(inc, a) ==
    call.aps[a].eirp_dbm
    - MultiApPathLoss(inc.d_m, call.center_mhz, call.environment, call.path_model,
                      inc.rx_antenna_height_m)
    + GainTowardsAp(inc, 3000)

\* C24: in both aggregate evaluators an AP whose channel does not overlap the FS channel
\* contributes its co-channel interference less the ACIR at |center - fs_center|, and an
\* AP whose channel overlaps contributes it unreduced.
C24_NonOverlappingReducedByAcir ==
    /\ AggregateEvaluated =>
         \A k \in 1..Len(incumbents) :
             response.details[k].inr_db
               = inr_db_from_components(
                     [a \in 1..Len(call.aps) |->
                         CoChannelAggregate(incumbents[k], a) - AcirReduction(incumbents[k])],
                     noise_power_dbm(spec.bandwidth_khz, spec.noise_figure_db))
    /\ MultiApEvaluated =>
         \A k \in 1..Len(incumbents) : \A a \in 1..Len(call.aps) :
             response.value[k].components[a]
               = CoChannelMultiAp(incumbents[k], a) - AcirReduction(incumbents[k])

-----------------------------------------------------------------------------
(* Properties of the path-model dispatch and of the trace fields *)

\* the loss of the model named by path_model, the environment adder and the penetration
\* adder added to it; auto chooses the model by distance
DispatchedPathLoss(site, center_khz, c) ==
    LET d_m == IF ~IsNone(c.distance_m) THEN Val(c.distance_m) ELSE site.d_m
        adders == (IF ~IsNone(c.environment)
                   THEN environment_extra_loss_db(Val(c.environment)) ELSE 0)
                  + building_penetration_loss_db(c.indoor, c.penetration_db)
    IN CASE c.path_model = "fspl" -> fspl_db(d_m, center_khz) + adders
         [] c.path_model = "winner" -> winner2_pathloss_db(d_m, center_khz) + adders
         [] c.path_model = "two_slope" -> two_slope_pathloss_db(d_m, center_khz) + adders
         [] c.path_model = "itm" ->
                longley_rice_pathloss_db(d_m, center_khz, site.rx_h_m, None) + adders
         [] OTHER -> select_pathloss_db(d_m, center_khz, None, c.environment, c.indoor,
                                        c.penetration_db)

\* C25: in build_grant_table_with_incumbents the path loss of a row below the cap is the
\* loss of the limiting site by the model that path_model names (two_slope_pathloss_db for
\* two_slope) plus the environment adder plus the penetration adder; only auto chooses the
\* model by distance.
C25_PathModelDispatch ==
    Returned("with_incumbents") =>
        \A i \in RowIndexes : \A s \in ProtectionSites :
            (/\ rows[i].allowed_eirp_dbm < spec.max_eirp_dbm
             /\ rows[i].limiting_incumbent = Some(s.link_id))
                => rows[i].path_loss_db = DispatchedPathLoss(s, rows[i].center_mhz, call)

\* the trace fields of row r describe site s as evaluated for the row's own channel
TraceDescribes(r, s) ==
    LET e == SiteEval(s, r.center_mhz, r.bandwidth_mhz, call, spec)
    IN /\ e.eirp = r.allowed_eirp_dbm
       /\ r.limiting_incumbent = Some(s.link_id)
       /\ r.limiting_mode = Some(e.mode)
       /\ r.acir_db_used = e.acir

\* no site restricts the row's channel below the regulatory cap
Unrestricted(r) ==
    \A s \in ProtectionSites :
        SiteEval(s, r.center_mhz, r.bandwidth_mhz, call, spec).eirp >= spec.max_eirp_dbm

\* C26: in every row of build_grant_table_with_incumbents the fields limiting_incumbent,
\* limiting_mode and acir_db_used describe a protection site evaluated for the row's own
\* channel whose allowed EIRP is the row's, or are all null when no site restricts the
\* channel below the cap; they are never those of a channel evaluated earlier.
C26_TraceOfOwnChannel ==
    Returned("with_incumbents") =>
        \A i \in RowIndexes :
            \/ \E s \in ProtectionSites : TraceDescribes(rows[i], s)
            \/ /\ Unrestricted(rows[i])
               /\ rows[i].limiting_incumbent = None
               /\ rows[i].limiting_mode = None
               /\ rows[i].acir_db_used = None

\* the (center, bandwidth) pairs the builder enumerates for call c
EnumeratedChannels(c) ==
    UNION {LET centers == enumerate_centers_mhz(c.lower_mhz, c.upper_mhz, c.bandwidths_mhz[j])
           IN {<<centers[m], c.bandwidths_mhz[j]>> : m \in 1..Len(centers)} :
           j \in 1..Len(c.bandwidths_mhz)}

\* C28: build_grant_table_with_incumbents does not fail and returns one row for every
\* enumerated (center, bandwidth); a row of a channel that no protection site restricts
\* below the cap, the first channel of the call and an empty incumbent list included, has
\* the regulatory cap as allowed EIRP.
C28_RowForEveryChannel ==
    call.builder = "with_incumbents" =>
        /\ outcome = "returned"
        /\ {<<rows[i].center_mhz, rows[i].bandwidth_mhz>> : i \in RowIndexes}
             = EnumeratedChannels(call)
        /\ Len(rows) = Cardinality(EnumeratedChannels(call))
        /\ \A i \in RowIndexes :
             Unrestricted(rows[i]) => rows[i].allowed_eirp_dbm = spec.max_eirp_dbm

\* the single-path allocator for the path of row r with acir_db_value = the row's ACIR
\* and the regulatory cap: threshold adjusted first, cap applied last
AllocatorWithAcir(r) ==
    allowed_eirp_dbm_for_path(r.noise_dbm, call.inr_limit_db - call.protection_margin_db,
                              r.path_loss_db, spec.antenna_gain_dbi, spec.rx_losses_db,
                              spec.polarization_mismatch_db, r.acir_db_used,
                              Some(spec.max_eirp_dbm))

\* C27: the value a builder gets in adjacent mode, the capped co-channel allowed EIRP with
\* the ACIR added afterwards, equals the single-path allocator called with
\* acir_db_value = ACIR and the same regulatory cap.
C27_AcirAfterCapEquivalent ==
    Returned("hypothetical_fs") =>
        \A i \in RowIndexes :
            rows[i].limiting_mode = Some("adj")
                => rows[i].allowed_eirp_dbm = AllocatorWithAcir(rows[i])

-----------------------------------------------------------------------------
(* Properties of merged frequency entries *)

\* C29: with mergeBins=true and any mergeToleranceDb, the maxPsd of a merged
\* availableFrequencyInfo entry is at most the value computed for each 1-MHz bin that the
\* entry covers.
C29_MergedValueWithinEveryBin ==
    MergedSuccess =>
        \A j \in 1..Len(ComputedBins) :
            FrequencyEntries[EntryOfBin(j)].maxPsd <= ComputedBins[j][3]

-----------------------------------------------------------------------------
(* Properties of non-positive channel bandwidths *)

\* the builder was called with a zero or negative member in bandwidths_mhz
NonPositiveBuild ==
    /\ call.builder = "with_incumbents"
    /\ \E i \in 1..Len(call.bandwidths_mhz) : call.bandwidths_mhz[i] <= 0

\* the handler evaluated a channel query one of whose items resolves to a zero or negative
\* bandwidth
NonPositiveInquiry ==
    /\ Handled
    /\ call.returned_at = "channel"
    /\ call.evaluated
    /\ \E i \in 1..Len(ChannelItems) : StatedBandwidth(ChannelItems[i]) <= 0

\* C30: a non-positive channel bandwidth that reaches the grant-table builder, directly or
\* through a channel item of a spectrum inquiry, ends the evaluation with an exception or
\* an error response; the call terminates.
C30_NonPositiveBandwidthHalts ==
    /\ NonPositiveBuild => outcome = "raised"
    /\ NonPositiveInquiry =>
           \/ outcome = "raised"
           \/ response.kind = "response" /\ response.responseCode # RC_SUCCESS

=============================================================================
